---- MODULE Spec2Model ----
(***************************************************************************)
(* Holocene Calendar timeline (src/js/app.js): the era conversion, the     *)
(* date parsers, the pixel/year mapping, dataset loading, the channel      *)
(* allocator for range bars, the filter/render pipeline, the hover/lock    *)
(* focus state machine, scrolling, the year inputs and the public API.     *)
(*                                                                         *)
(* The specifications share the variables:                                 *)
(*   SpecCal    - toHoloceneYear / fromHoloceneYear applied to drawn inputs *)
(*   SpecParse  - the date parsers applied to drawn texts                  *)
(*   SpecPix    - yearToPixels / pixelsToYear applied to drawn years       *)
(*   SpecLoad   - init() loading its datasets, fetches failing or not      *)
(*   SpecChan   - one renderTimeline pass, entry by entry, over drawn ranges*)
(*   SpecRender - load of a drawn dataset, then filter/spread/scale renders*)
(*   SpecFocus  - a fixed dataset under clicks, pointer moves and re-renders*)
(*   SpecHover  - pointer input over three stacked entries                 *)
(*   SpecApi    - the operations of window.timelineAPI on a drawn dataset  *)
(*   SpecScroll - scrolling and scale changes                              *)
(*   SpecInput  - the year inputs on a scrolling page                      *)
(*   SpecScale  - the scale slider, the scale input and setScale           *)
(*   SpecNudge  - clicks and the animation frames they ask for             *)
(*   SpecBar    - ranges of each event type                                *)
(*   SpecAnchor - events before year 0                                     *)
(*   SpecEdit   - the year inputs under scroll and resize events           *)
(*   SpecRate   - bursts of scroll and pointer events between frames       *)
(*   SpecMount  - renderTimeline with and without the track element        *)
(***************************************************************************)
EXTENDS Integers, Sequences, FiniteSets, TLC

VARIABLES
    \* ---- era conversion probe (arguments and results of the two calls)
    argYear,            \* year argument of toHoloceneYear
    argEra,             \* era argument of toHoloceneYear
    heYear,             \* value returned by toHoloceneYear
    ceResult,           \* value returned by fromHoloceneYear
    heBack,             \* toHoloceneYear of the year and era of ceResult
    calPc,              \* "input" -> "converted" -> "inverted" -> "returned"
    \* ---- date parser probe
    parseArg,           \* the drawn input: prefix, lead, number, suffix
    parsed,             \* parseDateToHEWithCirca(text of parseArg)
    parsedBare,         \* the same without the circa prefix
    parsedCE,           \* parseCEDateToHE(text of parseArg without prefix)
    parsePc,            \* "input" -> "parsed" -> "bare" -> "ce"
    \* ---- pixel/year conversion probe (scales in tenths of a pixel per year)
    pixYear,            \* year argument of yearToPixels
    pixScale,           \* CONFIG.pxPerYear during the two calls
    pixels,             \* value returned by yearToPixels
    pixBack,            \* value returned by pixelsToYear
    pixPc,              \* "input" -> "pixels" -> "year"
    \* ---- dataset loading (loadAllDatasets, timelineAPI.loadDataset)
    fetches,            \* per requested URL: what fetch() and json() will yield
    results,            \* per requested URL: "pending", or what loadDataset returned
    loadPc,             \* "idle", "fetching" -> "merged" -> "rendered"
    \* ---- window scroll and the year readout
    scrollY,            \* window.scrollY
    innerHeight,        \* window.innerHeight
    scrollTarget,       \* where a smooth scroll under way is heading (-1: none)
    scrollTimers,       \* years of the pending setTimeout(scrollToYear) of addEvent
    isEditingYear,      \* the module variable isEditingYear
    focused,            \* the year input holding the focus: "he", "ce" or "none"
    yearInput,          \* value of #currentYear
    yearInputCE,        \* value of #currentYearCE
    yearCELabel,        \* textContent of #yearCELabel
    heValueOnFocus,     \* setupYearInput's closure variable heValueOnFocus
    ceValueOnFocus,     \* setupYearInput's closure variable ceValueOnFocus
    \* ---- STATE / CONFIG / DOM of app.js
    datasets,           \* STATE.datasets
    allEvents,          \* STATE.allEvents
    pointEvents,        \* STATE.pointEvents
    rangeEvents,        \* STATE.rangeEvents
    categories,         \* keys of STATE.categories
    activeFilters,      \* STATE.activeFilters
    spreadRanges,       \* STATE.spreadRanges
    pxPerYear,          \* CONFIG.pxPerYear
    isMobile,           \* window.innerWidth < 600
    lastViewportCategory, \* init()'s closure variable, TRUE = 'mobile'
    hideLabels,         \* document.body has class hide-labels
    channelOccupancy,   \* channelOccupancy {left, right}
    track,              \* children of #timelineTrack that are timeline entries
    renderCount,        \* number of renderTimeline runs so far (node identity)
    lockedEvent,        \* STATE.lockedEvent
    hoveredEvent,       \* STATE.hoveredEvent
    lockedCls,          \* nodes whose classList has 'locked'
    hoveredCls,         \* nodes whose classList has 'hovered'
    lastY,              \* setupSmartHover's closure variable lastY
    frames,             \* nodes of the pending requestAnimationFrame callbacks
                        \* of handleEventClick, in the order queued
    nudges,             \* the entries whose card, connector or bar differ from
                        \* what render() set: [id, adj]
    lastInput,          \* the input event the last handler run served
    \* ---- rate probe: the work done between two animation frames
    scrollThrottle,     \* throttleRAF's closure of the scroll listener:
                        \* [scheduled, lastArgs (scroll offset of the event)]
    rafCallbacks,       \* pending requestAnimationFrame callbacks of throttleRAF
    frameWork,          \* events received and handler runs since the last
                        \* frame, and the readout updates that frame ran
    \* ---- the page
    hasTrack            \* document.getElementById('timelineTrack') is an element

calVars == <<argYear, argEra, heYear, ceResult, heBack, calPc>>
parseVars == <<parseArg, parsed, parsedBare, parsedCE, parsePc>>
pixVars == <<pixYear, pixScale, pixels, pixBack, pixPc>>
rateVars == <<scrollThrottle, rafCallbacks, frameWork>>
pageVars == <<hasTrack>>
probeVars == <<calVars, parseVars, pixVars, rateVars, pageVars>>
loadVars == <<fetches, results, loadPc>>
dataVars == <<datasets, allEvents, pointEvents, rangeEvents, categories>>
cfgVars == <<activeFilters, spreadRanges, pxPerYear, isMobile,
             lastViewportCategory, hideLabels>>
domVars == <<channelOccupancy, track, renderCount>>
nudgeVars == <<frames, nudges>>
focusVars == <<lockedEvent, hoveredEvent, lockedCls, hoveredCls, lastY, nudgeVars>>
scrollVars == <<scrollY, innerHeight, scrollTarget, scrollTimers>>
readoutVars == <<yearInput, yearInputCE, yearCELabel>>
inputVars == <<isEditingYear, focused, readoutVars, heValueOnFocus, ceValueOnFocus>>
viewVars == <<scrollVars, inputVars>>
uiVars == <<loadVars, viewVars, dataVars, cfgVars, domVars, focusVars, lastInput>>
vars == <<probeVars, uiVars>>

(***************************************************************************)
(* Bounds of the model.                                                    *)
(***************************************************************************)
MaxCalYear == 4         \* era conversion is tried on -MaxCalYear..MaxCalYear
MaxYear == 3            \* range years of a render pass in SpecChan are 0..MaxYear
MaxEntries == 5         \* entries of one render pass in SpecChan
MaxEvents == 3          \* events of a drawn dataset in SpecRender
MaxRenders == 2         \* renderTimeline runs in SpecRender and SpecFocus
MaxY == 1               \* pointer clientY values are 0..MaxY
MaxBurst == 2           \* events of one kind between two animation frames
MaxParseYear == 12      \* the date parsers are tried on 0..MaxParseYear and more
MaxPixYear == 12        \* the pixel conversion is tried on -1..MaxPixYear and more
MaxUrls == 2            \* dataset urls of one loadAllDatasets call
MaxFrames == 2          \* animation-frame callbacks pending at once in SpecNudge


(***************************************************************************)
(* Program constants.                                                      *)
(***************************************************************************)
HoloceneOffset == 10000
BceBase == 10001
DefaultPxPerYear == 5
DesktopMaxChannels == 15
DesktopChannelWidth == 20
MobileMaxChannels == 4
MobileChannelWidth == 15
MobileMaxOffset == 60
TopBarHeight == 80
FooterHeight == 60
ScrollPadding == 100
MinPxPerYearHalves == 1
MaxPxPerYear == 20
DotInnerSize == 10
DotBorder == 2
DotOutline == 1
ConnectorBaseMobile == 35
ConnectorBaseDesktop == 60

\* null for node references: no rendered node has render number 0
null == <<0, 0>>

\* ======================= DATE CONVERSION UTILITIES =======================

\* String.prototype.toUpperCase on the era strings the model draws
toUpperCase(s) ==
    CASE s = "ce" -> "CE"
      [] s = "ad" -> "AD"
      [] s = "bce" -> "BCE"
      [] s = "Bc" -> "BC"
      [] s = "he" -> "HE"
      [] OTHER -> s

toHoloceneYearOffByOne(year, era) ==
    LET e == toUpperCase(era) IN
    IF e = "CE" \/ e = "AD" THEN year + HoloceneOffset
    ELSE IF e = "BCE" \/ e = "BC" THEN HoloceneOffset - year
    ELSE IF e = "HE" THEN year
    ELSE year + HoloceneOffset

toHoloceneYear(year, era) ==
    LET e == toUpperCase(era) IN
    IF e = "CE" \/ e = "AD" THEN year + HoloceneOffset
    ELSE IF e = "BCE" \/ e = "BC" THEN BceBase - year
    ELSE IF e = "HE" THEN year
    ELSE year + HoloceneOffset      \* unknown era: warn, assume CE

fromHoloceneYearWithYearZero(h) ==
    IF h >= BceBase THEN [year |-> h - HoloceneOffset, era |-> "CE"]
    ELSE [year |-> HoloceneOffset - h, era |-> "BCE"]

fromHoloceneYearNoCE(h) ==
    IF h > BceBase THEN [year |-> h - HoloceneOffset, era |-> "CE"]
    ELSE IF h = HoloceneOffset THEN [year |-> 1, era |-> "BCE"]
    ELSE [year |-> BceBase - h, era |-> "BCE"]

fromHoloceneYear(h) ==
    IF h >= BceBase THEN [year |-> h - HoloceneOffset, era |-> "CE"]
    ELSE IF h = HoloceneOffset THEN [year |-> 1, era |-> "BCE"]
    ELSE IF h > 0 THEN [year |-> BceBase - h, era |-> "BCE"]
    ELSE [year |-> BceBase - h, era |-> "BCE"]

\* ============================= DATE PARSING ===============================
\* A text is a sequence of one-character strings.

DigitChars == {"0", "1", "2", "3", "4", "5", "6", "7", "8", "9"}

\* the digit a character stands for
DigitVal(c) ==
    CASE c = "0" -> 0 [] c = "1" -> 1 [] c = "2" -> 2 [] c = "3" -> 3
      [] c = "4" -> 4 [] c = "5" -> 5 [] c = "6" -> 6 [] c = "7" -> 7
      [] c = "8" -> 8 [] c = "9" -> 9

\* String.prototype.toUpperCase, per character of the model's alphabet
UpperChar(c) ==
    CASE c = "a" -> "A" [] c = "b" -> "B" [] c = "c" -> "C" [] c = "d" -> "D"
      [] c = "e" -> "E" [] c = "h" -> "H" [] c = "i" -> "I" [] c = "n" -> "N"
      [] c = "p" -> "P" [] c = "r" -> "R" [] c = "s" -> "S" [] c = "t" -> "T"
      [] c = "x" -> "X"
      [] OTHER -> c

toUpperCaseText(t) == [i \in 1..Len(t) |-> UpperChar(t[i])]

\* String.prototype.trim
RECURSIVE trimStart(_)
trimStart(t) ==
    IF t # <<>> /\ Head(t) = " " THEN trimStart(Tail(t)) ELSE t

RECURSIVE trimEnd(_)
trimEnd(t) ==
    IF t # <<>> /\ t[Len(t)] = " " THEN trimEnd(SubSeq(t, 1, Len(t) - 1)) ELSE t

trim(t) == trimEnd(trimStart(t))

\* parseInt(digits, 10) of a run of digit characters, left to right
RECURSIVE parseIntFrom(_, _, _)
parseIntFrom(t, i, acc) ==
    IF i > Len(t) THEN acc
    ELSE parseIntFrom(t, i + 1, acc * 10 + DigitVal(t[i]))

parseInt(t) == parseIntFrom(t, 1, 0)

\* A pattern is a sequence of items [cs, q]: one character of cs ("one"), at
\* most one ("opt"), any number ("star"), at least one ("plus").
One(c) == [cs |-> {c}, q |-> "one"]
Opt(c) == [cs |-> {c}, q |-> "opt"]
Spaces == [cs |-> {" "}, q |-> "star"]
Number == [cs |-> DigitChars, q |-> "plus"]

\* RegExp match of pat[k..] against t[i..], anchored at both ends
RECURSIVE MatchFrom(_, _, _, _)
MatchFrom(pat, k, t, i) ==
    IF k > Len(pat) THEN i = Len(t) + 1
    ELSE LET item == pat[k]
             here == i <= Len(t) /\ t[i] \in item.cs
         IN  CASE item.q = "one" -> here /\ MatchFrom(pat, k + 1, t, i + 1)
               [] item.q = "opt" ->
                    \/ MatchFrom(pat, k + 1, t, i)
                    \/ here /\ MatchFrom(pat, k + 1, t, i + 1)
               [] item.q = "star" ->
                    \/ MatchFrom(pat, k + 1, t, i)
                    \/ here /\ MatchFrom(pat, k, t, i + 1)
               [] item.q = "plus" ->
                    here /\ (\/ MatchFrom(pat, k, t, i + 1)
                             \/ MatchFrom(pat, k + 1, t, i + 1))

Matches(pats, t) == \E pat \in pats : MatchFrom(pat, 1, t, 1)

\* /^(?:HE\s*)?(\d+)(?:\s*HE)?$/
heRegex ==
    {pre \o <<Number>> \o suf :
        pre \in {<<>>, <<One("H"), One("E"), Spaces>>},
        suf \in {<<>>, <<Spaces, One("H"), One("E")>>}}

\* /^(\d+)\s*B\.?\s*C\.?\s*(?:E\.?)?$/
bceRegex ==
    {<<Number, Spaces, One("B"), Opt("."), Spaces, One("C"), Opt("."), Spaces>>
        \o e : e \in {<<>>, <<One("E"), Opt(".")>>}}

\* /^(\d+)\s*(?:C\.?\s*E\.?|A\.?\s*D\.?)$/
ceRegex ==
    {<<Number, Spaces>> \o era :
        era \in {<<One("C"), Opt("."), Spaces, One("E"), Opt(".")>>,
                 <<One("A"), Opt("."), Spaces, One("D"), Opt(".")>>}}

\* /^-(\d+)$/
negativeRegex == {<<One("-"), Number>>}

\* /^(\d+)$/
plainRegex == {<<Number>>}

\* the capture group (\d+): each of the patterns holds one run of digits and
\* no digit elsewhere
Captured(t) == SelectSeq(t, LAMBDA c : c \in DigitChars)

\* strUpper.includes('HE')
IncludesHE(t) == \E i \in 1..(Len(t) - 1) : t[i] = "H" /\ t[i + 1] = "E"

\* str.match(/^(?:c\.?|circa)\s*/i): the length matched, 0 for no match. The
\* first alternative matches whenever the text starts with c, so the second
\* is never tried.
RECURSIVE SpacesFrom(_, _)
SpacesFrom(t, i) ==
    IF i <= Len(t) /\ t[i] = " " THEN 1 + SpacesFrom(t, i + 1) ELSE 0

circaMatch(t) ==
    IF t # <<>> /\ UpperChar(t[1]) = "C"
    THEN LET dot == IF Len(t) >= 2 /\ t[2] = "." THEN 1 ELSE 0
         IN  1 + dot + SpacesFrom(t, 2 + dot)
    ELSE 0

PresentText == <<"p", "r", "e", "s", "e", "n", "t">>

\* the years getCurrentHoloceneYear() may return
CurrentHoloceneYears == {2026 + HoloceneOffset}

Year(n, circa) == [nan |-> FALSE, year |-> n, circa |-> circa]
NotANumber == [nan |-> TRUE, year |-> 0, circa |-> FALSE]

\* the BCE and negative-number branches: circa bump, then the 0/1 collapse
BceYearNoBump(n, isCirca) ==
    IF n = 0 \/ n = 1 THEN Year(HoloceneOffset, isCirca)
    ELSE Year(toHoloceneYear(n, "BCE"), isCirca)

BceYear(n, isCirca) ==
    LET year == IF isCirca /\ n % 10 = 0 /\ n # HoloceneOffset THEN n + 1 ELSE n
    IN  IF year = 0 \/ year = 1 THEN Year(HoloceneOffset, isCirca)
        ELSE Year(toHoloceneYear(year, "BCE"), isCirca)

\* parseDateToHEWithCirca(dateInput), dateInput a number or a text; `now` is
\* what getCurrentHoloceneYear() returns
parseDateToHEWithCircaPlainIsCE(dateInput, now) ==
    IF dateInput.isNumber THEN Year(dateInput.num, FALSE)
    ELSE LET str0 == trim(dateInput.text)
             n0 == circaMatch(str0)
             isCirca == n0 > 0
             str == IF isCirca THEN trim(SubSeq(str0, n0 + 1, Len(str0))) ELSE str0
             strUpper == toUpperCaseText(str)
             digits == parseInt(Captured(strUpper))
         IN  IF toUpperCaseText(str0) = toUpperCaseText(PresentText)
             THEN Year(now, FALSE)
             ELSE IF Matches(heRegex, strUpper) /\ IncludesHE(strUpper)
             THEN Year(digits, isCirca)
             ELSE IF Matches(bceRegex, strUpper) THEN BceYear(digits, isCirca)
             ELSE IF Matches(ceRegex, strUpper)
             THEN IF digits = 0 THEN Year(HoloceneOffset, isCirca)
                  ELSE Year(toHoloceneYear(digits, "CE"), isCirca)
             ELSE IF Matches(negativeRegex, strUpper) THEN BceYear(digits, isCirca)
             ELSE IF Matches(plainRegex, strUpper)
             THEN Year(toHoloceneYear(digits, "CE"), isCirca)
             ELSE NotANumber

parseDateToHEWithCirca(dateInput, now) ==
    IF dateInput.isNumber THEN Year(dateInput.num, FALSE)
    ELSE LET str0 == trim(dateInput.text)
             n0 == circaMatch(str0)
             isCirca == n0 > 0
             str == IF isCirca THEN trim(SubSeq(str0, n0 + 1, Len(str0))) ELSE str0
             strUpper == toUpperCaseText(str)
             digits == parseInt(Captured(strUpper))
         IN  IF toUpperCaseText(str0) = toUpperCaseText(PresentText)
             THEN Year(now, FALSE)
             ELSE IF Matches(heRegex, strUpper) /\ IncludesHE(strUpper)
             THEN Year(digits, isCirca)
             ELSE IF Matches(bceRegex, strUpper) THEN BceYear(digits, isCirca)
             ELSE IF Matches(ceRegex, strUpper)
             THEN IF digits = 0 THEN Year(HoloceneOffset, isCirca)
                  ELSE Year(toHoloceneYear(digits, "CE"), isCirca)
             ELSE IF Matches(negativeRegex, strUpper) THEN BceYear(digits, isCirca)
             ELSE IF Matches(plainRegex, strUpper) THEN Year(digits, isCirca)
             ELSE NotANumber

\* parseDateToHE(dateInput): the year alone (nan: NaN)
\* parseDateToHE taking the leading digits of what it cannot parse
parseDateToHELeadingDigits(dateInput, now) ==
    LET r == parseDateToHEWithCirca(dateInput, now)
    IN  [nan |-> FALSE, year |-> r.year]

parseDateToHE(dateInput, now) ==
    LET r == parseDateToHEWithCirca(dateInput, now)
    IN  [nan |-> r.nan, year |-> r.year]

\* parseCEDateToHE(dateInput)
parseCEDateToHE(dateInput) ==
    IF dateInput.isNumber
    THEN [nan |-> FALSE, year |-> dateInput.num + HoloceneOffset]
    ELSE LET str == toUpperCaseText(trim(dateInput.text))
             year == parseInt(Captured(str))
             he(n) == [nan |-> FALSE, year |-> n]
         IN  IF Matches(bceRegex, str)
             THEN IF year = 0 \/ year = 1 THEN he(HoloceneOffset)
                  ELSE he(toHoloceneYear(year, "BCE"))
             ELSE IF Matches(ceRegex, str)
             THEN IF year = 0 THEN he(HoloceneOffset)
                  ELSE he(toHoloceneYear(year, "CE"))
             ELSE IF Matches(negativeRegex, str)
             THEN IF year = 0 \/ year = 1 THEN he(HoloceneOffset)
                  ELSE he(toHoloceneYear(year, "BCE"))
             ELSE IF Matches(plainRegex, str)
             THEN IF year = 0 THEN he(HoloceneOffset)
                  ELSE he(toHoloceneYear(year, "CE"))
             ELSE [nan |-> TRUE, year |-> 0]

\* ========================= PIXEL/YEAR CONVERSION ==========================

Max(a, b) == IF a >= b THEN a ELSE b
Min(a, b) == IF a <= b THEN a ELSE b

yearToPixelsUnclamped(year, px) == year * px

yearToPixelsDefaultScale(year, px) == Max(0, year) * DefaultPxPerYear

\* yearToPixels(year) at CONFIG.pxPerYear = px
yearToPixels(year, px) == Max(0, year) * px

\* Math.round(x) for x = num / den, den > 0: floor(x + 0.5)
MathRound(num, den) == (2 * num + den) \div (2 * den)

\* Math.floor(x) for x = num / den, den > 0
MathFloor(num, den) == num \div den

pixelsToYearFloor(px, scale, err) ==
    MathFloor(100 * px + err, 100 * scale)

\* pixelsToYear(px) at CONFIG.pxPerYear = scale. The floating-point quotient
\* px / scale is off the exact one by err / (100 * scale), err in -1..1: the
\* multiplication and the division each round to the nearest double.
pixelsToYear(px, scale, err) ==
    MathRound(100 * px + err, 100 * scale)

\* the rounding errors of one floating-point division
FloatErrors == {-1, 0, 1}

\* ============================ DATASET LOADING ============================

\* Array.prototype.sort((a, b) => a.year - b.year): a stable sort by year
RECURSIVE InsertByYear(_, _)
RECURSIVE InsertByYearBeforeEquals(_, _)
InsertByYearBeforeEquals(sorted, e) ==
    IF sorted = <<>> THEN <<e>>
    ELSE IF Head(sorted).year < e.year
         THEN <<Head(sorted)>> \o InsertByYearBeforeEquals(Tail(sorted), e)
         ELSE <<e>> \o sorted

InsertByYear(sorted, e) ==
    IF sorted = <<>> THEN <<e>>
    ELSE IF Head(sorted).year <= e.year
         THEN <<Head(sorted)>> \o InsertByYear(Tail(sorted), e)
         ELSE <<e>> \o sorted

RECURSIVE SortByYear(_)
SortByYear(s) ==
    IF s = <<>> THEN <<>>
    ELSE InsertByYear(SortByYear(SubSeq(s, 1, Len(s) - 1)), s[Len(s)])

\* JavaScript truthiness of event.endYear (undefined and 0 are falsy)
EndYearTruthy(e) == e.hasEnd /\ e.endYear # 0

SideOfIndex(index) == IF index % 2 = 0 THEN "left" ELSE "right"

\* loadAllDatasets: merge, sort, pre-assign sides by position in the full list
AssignSides(sorted) ==
    [i \in 1..Len(sorted) |-> [sorted[i] EXCEPT !.side = SideOfIndex(i - 1)]]

MergeEvents(rawEvents) == AssignSides(SortByYear(rawEvents))

PointEventsOf(events) == SelectSeq(events, LAMBDA e : ~EndYearTruthy(e))
RangeEventsOf(events) == SelectSeq(events, LAMBDA e : EndYearTruthy(e))

\* a dataset object: its id, its events array (absent: hasEvents FALSE) and
\* the keys of its categories object
Dataset(id, events, cats) ==
    [id |-> id, hasEvents |-> TRUE, events |-> events, categories |-> cats]

\* what a loadDataset(url) promise can have settled to
Pending == [state |-> "pending", data |-> Dataset(0, <<>>, {})]
Null == [state |-> "null", data |-> Dataset(0, <<>>, {})]
Threw == [state |-> "threw", data |-> Dataset(0, <<>>, {})]
Loaded(data) == [state |-> "data", data |-> data]

\* the map callback of loadDataset: year (and endYear) brought to HE numbers
NormalizeEvent(event, now) ==
    [id |-> event.id,
     year |-> IF event.year.isNumber THEN event.year.num
              ELSE parseDateToHEWithCirca(event.year, now).year,
     hasEnd |-> event.hasEnd,
     endYear |-> IF ~event.hasEnd THEN 0
                 ELSE IF event.endYear.isNumber THEN event.endYear.num
                 ELSE parseDateToHEWithCirca(event.endYear, now).year,
     categories |-> event.categories,
     type |-> event.type,
     side |-> ""]

\* response.ok
ResponseOk(status) == status \in 200..299

\* loadDataset(url) without its try/catch
loadDatasetNoCatch(fetch, now) ==
    IF fetch.network = "error" THEN Threw
    ELSE IF ~ResponseOk(fetch.status) THEN Threw
    ELSE IF ~fetch.json THEN Threw
    ELSE Loaded([fetch.data EXCEPT
                   !.events = [i \in DOMAIN @ |-> NormalizeEvent(@[i], now)]])

\* loadDataset(url): fetch rejected, status not OK and a body that is not JSON
\* all end in the catch block, which returns null
loadDataset(fetch, now) ==
    IF fetch.network = "error" THEN Null
    ELSE IF ~ResponseOk(fetch.status) THEN Null
    ELSE IF ~fetch.json THEN Null
    ELSE Loaded([fetch.data EXCEPT
                   !.events = [i \in DOMAIN @ |-> NormalizeEvent(@[i], now)]])

\* STATE.datasets.flatMap(dataset => dataset.events || [])
RECURSIVE FlatMapEvents(_)
FlatMapEvents(ds) ==
    IF ds = <<>> THEN <<>>
    ELSE (IF Head(ds).hasEvents THEN Head(ds).events ELSE <<>>)
           \o FlatMapEvents(Tail(ds))

\* the merge of the categories objects of the datasets
RECURSIVE MergeCategories(_)
MergeCategories(ds) ==
    IF ds = <<>> THEN {}
    ELSE Head(ds).categories \cup MergeCategories(Tail(ds))

\* STATE.categories = {...STATE.categories, ...dataset.categories} over the
\* datasets in order: per key the definition it ends with, a definition being
\* told by the id of the dataset that gives it
RECURSIVE MergeCategoryTable(_)
MergeCategoryTable(ds) ==
    IF ds = <<>> THEN [k \in {} |-> 0]
    ELSE LET before == MergeCategoryTable(SubSeq(ds, 1, Len(ds) - 1))
             dataset == ds[Len(ds)]
         IN  [k \in DOMAIN before \cup dataset.categories |->
                IF k \in dataset.categories THEN dataset.id ELSE before[k]]

\* the event objects of a dataset are the objects of the merged list: a side
\* assigned through the list shows in the dataset
SharedEvents(dataset, merged) ==
    [dataset EXCEPT
       !.events = [i \in DOMAIN @ |->
                     CHOOSE e \in {merged[j] : j \in 1..Len(merged)} : e.id = @[i].id]]

\* loadAllDatasets taking the results in the order the fetches completed
\* (lastInput.under) instead of the order of the urls
loadAllDatasetsAsSettled(settled) ==
    LET order == lastInput.under
        arrived == [i \in 1..Len(settled) |-> settled[order[i]]]
        kept == SelectSeq(arrived, LAMBDA r : r.state # "null")
        ds == [i \in 1..Len(kept) |-> kept[i].data]
        merged == MergeEvents(FlatMapEvents(ds))
        cats == MergeCategories(ds)
    IN  [datasets |-> [i \in 1..Len(ds) |-> SharedEvents(ds[i], merged)],
         categories |-> cats,
         allEvents |-> merged,
         pointEvents |-> PointEventsOf(merged),
         rangeEvents |-> RangeEventsOf(merged),
         activeFilters |-> cats]

\* loadAllDatasets after Promise.all has resolved with `settled`
loadAllDatasets(settled) ==
    LET kept == SelectSeq(settled, LAMBDA r : r.state # "null")
        ds == [i \in 1..Len(kept) |-> kept[i].data]
        merged == MergeEvents(FlatMapEvents(ds))
        cats == MergeCategories(ds)
    IN  [datasets |-> [i \in 1..Len(ds) |-> SharedEvents(ds[i], merged)],
         categories |-> cats,
         allEvents |-> merged,
         pointEvents |-> PointEventsOf(merged),
         rangeEvents |-> RangeEventsOf(merged),
         activeFilters |-> cats]


\* ============================ FILTER FUNCTIONS ===========================

eventPassesFilterEmptyShowsAll(event, filters) ==
    IF event.categories = {} THEN TRUE
    ELSE IF filters = {} THEN TRUE
    ELSE \E cat \in event.categories : cat \in filters

eventPassesFilter(event, filters) ==
    IF event.categories = {} THEN TRUE
    ELSE IF filters = {} THEN FALSE
    ELSE \E cat \in event.categories : cat \in filters

getFilteredEvents(points, ranges, filters) ==
    [pointEvents |-> SelectSeq(points, LAMBDA e : eventPassesFilter(e, filters)),
     rangeEvents |-> SelectSeq(ranges, LAMBDA e : eventPassesFilter(e, filters))]

\* ====================== CHANNEL SYSTEM FOR RANGES ========================

getMobileChannelConfig(mobile) ==
    IF mobile
    THEN [maxChannels |-> MobileMaxChannels, channelWidth |-> MobileChannelWidth,
          maxOffset |-> MobileMaxOffset]
    ELSE [maxChannels |-> DesktopMaxChannels, channelWidth |-> DesktopChannelWidth,
          maxOffset |-> DesktopMaxChannels * DesktopChannelWidth]

resetChannels == [left |-> <<>>, right |-> <<>>]

OverlapsOpen(r, startYear, endYear) == ~(endYear <= r.start \/ startYear >= r.end)

\* the occupancy test of findAvailableChannel: closed intervals
Overlaps(r, startYear, endYear) == ~(endYear < r.start \/ startYear > r.end)

\* The for loop of findAvailableChannel from channel i on: channels is the
\* array channelOccupancy[side], its element i being at position i.
RECURSIVE ScanChannels(_, _, _, _, _)
RECURSIVE ScanChannelsNoPush(_, _, _, _, _)
ScanChannelsNoPush(channels, i, maxChannels, startYear, endYear) ==
    IF i > maxChannels
    THEN [channel |-> maxChannels, channels |-> channels]
    ELSE LET ch == IF i > Len(channels) THEN Append(channels, {}) ELSE channels
             occupied == \E r \in ch[i] : Overlaps(r, startYear, endYear)
         IN  IF ~occupied
             THEN [channel |-> i, channels |-> ch]
             ELSE ScanChannelsNoPush(ch, i + 1, maxChannels, startYear, endYear)

ScanChannels(channels, i, maxChannels, startYear, endYear) ==
    IF i > maxChannels
    THEN [channel |-> maxChannels, channels |-> channels]
    ELSE LET ch == IF i > Len(channels) THEN Append(channels, {}) ELSE channels
             occupied == \E r \in ch[i] : Overlaps(r, startYear, endYear)
         IN  IF ~occupied
             THEN [channel |-> i,
                   channels |-> [ch EXCEPT ![i] =
                                   @ \cup {[start |-> startYear, end |-> endYear]}]]
             ELSE ScanChannels(ch, i + 1, maxChannels, startYear, endYear)

findAvailableChannelFromLaneZero(occ, side, startYear, endYear, mobile) ==
    LET config == getMobileChannelConfig(mobile)
        got == ScanChannels(occ[side], 1, config.maxChannels, startYear, endYear)
    IN  [channel |-> got.channel - 1, occ |-> [occ EXCEPT ![side] = got.channels]]

findAvailableChannel(occ, side, startYear, endYear, mobile) ==
    LET config == getMobileChannelConfig(mobile)
        got == ScanChannels(occ[side], 1, config.maxChannels, startYear, endYear)
    IN  [channel |-> got.channel, occ |-> [occ EXCEPT ![side] = got.channels]]

\* ========================= TIMELINE ENTRY CLASS ==========================

\* getCachedCSS() with the fallback dot metrics
getCachedCSS ==
    LET dotTotalDiameter == DotInnerSize + (DotBorder * 2) + (DotOutline * 2)
    IN  [dotTotalDiameter |-> dotTotalDiameter,
         dotOffset |-> dotTotalDiameter \div 2]

EntrySideByIndex(eventData, index) == SideOfIndex(index)

\* this.side = eventData.side || (index % 2 === 0 ? 'left' : 'right')
EntrySide(eventData, index) ==
    IF eventData.side # "" THEN eventData.side ELSE SideOfIndex(index)

\* TimelineEntry._shouldShowRangeBar(), which the entries of renderTimeline
\* use; eventData.type is not read
shouldShowRangeBar(eventData) ==
    IF ~eventData.hasEnd THEN FALSE
    ELSE eventData.endYear - eventData.year >= 1

\* new TimelineEntry(eventData, index) followed by entry.assignChannel() and
\* entry.render(): the node appended to the track and the occupancy left
TimelineEntry(eventData, index, occ, spread, mobile, px, rc) ==
    LET side == EntrySide(eventData, index)
        showRangeBar == shouldShowRangeBar(eventData)
        startPx == yearToPixels(eventData.year, px)
        endPx == IF eventData.hasEnd THEN yearToPixels(eventData.endYear, px)
                 ELSE startPx
        config == getMobileChannelConfig(mobile)
        assigns == showRangeBar /\ spread
        got == IF assigns
               THEN findAvailableChannel(occ, side, eventData.year,
                                         eventData.endYear, mobile)
               ELSE [channel |-> 0, occ |-> occ]
        channelOffset == IF assigns
                         THEN Min(got.channel * config.channelWidth, config.maxOffset)
                         ELSE 0
    IN  [node |-> [id |-> <<rc, index + 1>>,
                   ev |-> eventData.id,
                   year |-> eventData.year,
                   endYear |-> IF eventData.hasEnd THEN eventData.endYear
                               ELSE eventData.year,
                   side |-> side,
                   isRange |-> eventData.hasEnd,
                   showRangeBar |-> showRangeBar,
                   startPx |-> startPx,
                   barHeight |-> endPx - startPx,
                   top |-> startPx,
                   adjustedBarHeight |->
                      IF showRangeBar
                      THEN (endPx - startPx) + (getCachedCSS.dotOffset * 2)
                      ELSE 0,
                   channel |-> got.channel,
                   channelOffset |-> channelOffset,
                   connectorWidth |-> (IF mobile THEN ConnectorBaseMobile
                                       ELSE ConnectorBaseDesktop) + channelOffset],
         occ |-> got.occ]

\* ---- nudge: what nudgeIntoViewport and resetNudge do to one entry
\* An entry's adjustable properties: the instance fields isNudged and
\* nudgeAmount, the card's translateX (0: transform ''), the connector's inline
\* width (-1: '') and inline left/right, the bar's inline left, and the
\* wasCentered / original* data attributes of connector and bar.

\* the properties as render() leaves them
Rendered(node) ==
    [isNudged |-> FALSE, nudgeAmount |-> 0, transform |-> 0,
     connWidth |-> node.connectorWidth, connPos |-> "rendered",
     connCentered |-> FALSE, connOrigWidth |-> -1, connOrigPos |-> "",
     barLeft |-> "rendered", barCentered |-> FALSE, barOrigLeft |-> ""]

\* entry.nudgeIntoViewport() with the card measured `nudge` px off the padded
\* viewport
nudgeIntoViewport(node, a, nudge, mobile) ==
    LET centers == node.showRangeBar /\ mobile /\ node.channelOffset > 0
        c == IF centers
             THEN [a EXCEPT !.barOrigLeft = a.barLeft, !.barLeft = "center",
                            !.barCentered = TRUE,
                            !.connOrigPos = a.connPos, !.connPos = "center",
                            !.connOrigWidth = a.connWidth,
                            !.connWidth = ConnectorBaseMobile,
                            !.connCentered = TRUE]
             ELSE a
    IN  IF nudge = 0 THEN c
        ELSE [c EXCEPT !.isNudged = TRUE, !.nudgeAmount = nudge,
                       !.transform = nudge,
                       !.connWidth = IF node.side = "left"
                                     THEN Max(0, node.connectorWidth - nudge)
                                     ELSE Max(0, node.connectorWidth + nudge)]

\* entry.resetNudge()
resetNudge(a) ==
    IF ~a.isNudged /\ ~a.barCentered /\ ~a.connCentered THEN a
    ELSE LET c == IF a.connCentered
                  THEN [a EXCEPT !.connWidth = a.connOrigWidth,
                                 !.connPos = a.connOrigPos,
                                 !.connCentered = FALSE,
                                 !.connOrigWidth = -1, !.connOrigPos = ""]
                  ELSE [a EXCEPT !.connWidth = -1]
             b == IF a.barCentered
                  THEN [c EXCEPT !.barLeft = a.barOrigLeft, !.barCentered = FALSE,
                                 !.barOrigLeft = ""]
                  ELSE c
         IN  [b EXCEPT !.isNudged = FALSE, !.nudgeAmount = 0, !.transform = 0]

\* the properties of the entry `id` of the track, and the set with them replaced
NodeOf(nodes, id) == CHOOSE n \in {nodes[i] : i \in 1..Len(nodes)} : n.id = id

AdjOf(ns, node) ==
    IF \E n \in ns : n.id = node.id
    THEN (CHOOSE n \in ns : n.id = node.id).adj
    ELSE Rendered(node)

SetAdj(ns, node, a) ==
    {n \in ns : n.id # node.id}
      \cup (IF a = Rendered(node) THEN {} ELSE {[id |-> node.id, adj |-> a]})

\* the card's distance off the padded viewport as getBoundingClientRect gives
\* it: a card already translated into the viewport measures as fitting
MeasuredNudge(a, overflow) == IF a.transform # 0 THEN 0 ELSE overflow

\* the requestAnimationFrame callbacks of one frame, in the order queued, the
\* untranslated card of an entry being `overflow` off the padded viewport
RECURSIVE RunFrame(_, _, _, _, _)
RunFrame(queued, ns, nodes, overflow, mobile) ==
    IF queued = <<>> THEN ns
    ELSE IF Head(queued) \notin {nodes[i].id : i \in 1..Len(nodes)}
    THEN RunFrame(Tail(queued), ns, nodes, overflow, mobile)
    ELSE LET node == NodeOf(nodes, Head(queued))
             a == AdjOf(ns, node)
             after == nudgeIntoViewport(node, a, MeasuredNudge(a, overflow), mobile)
         IN  RunFrame(Tail(queued), SetAdj(ns, node, after), nodes, overflow, mobile)

\* ============================== MAIN RENDER ==============================

\* the forEach over allEventsForRender from position i on
RECURSIVE RenderEntries(_, _, _, _, _, _, _, _)
RenderEntries(evs, i, nodes, occ, spread, mobile, px, rc) ==
    IF i > Len(evs) THEN [track |-> nodes, occ |-> occ]
    ELSE LET got == TimelineEntry(evs[i], i - 1, occ, spread, mobile, px, rc)
         IN  RenderEntries(evs, i + 1, Append(nodes, got.node), got.occ,
                           spread, mobile, px, rc)

allEventsForRenderPointsFirst(points, ranges, filters) ==
    LET f == getFilteredEvents(points, ranges, filters)
    IN  f.pointEvents \o f.rangeEvents

\* [...pointEvents, ...rangeEvents].sort((a, b) => a.sortYear - b.sortYear)
allEventsForRender(points, ranges, filters) ==
    LET f == getFilteredEvents(points, ranges, filters)
    IN  SortByYear(f.pointEvents \o f.rangeEvents)

\* the track and the channel occupancy renderTimeline leaves
renderTimeline(points, ranges, filters, spread, mobile, px, rc) ==
    RenderEntries(allEventsForRender(points, ranges, filters), 1, <<>>,
                  resetChannels, spread, mobile, px, rc)

LockedAfterRenderKept(locked) == locked

\* renderTimeline: STATE.lockedEvent = null
LockedAfterRender(locked) == null

\* renderTimeline does not assign STATE.hoveredEvent
HoveredAfterRender(hovered) == hovered

NodeIds(nodes) == {nodes[i].id : i \in 1..Len(nodes)}

\* ====================== FOCUS: CLICK TO LOCK / UNLOCK =====================
\* The focus state is passed as a record
\*   [locked, hovered : node id or null, lockedCls, hoveredCls : set of node ids]

Focus == [locked |-> lockedEvent, hovered |-> hoveredEvent,
          lockedCls |-> lockedCls, hoveredCls |-> hoveredCls]

UnlockKeepsHover(f) ==
    [locked |-> null, hovered |-> f.hovered,
     lockedCls |-> f.lockedCls \ {f.locked},
     hoveredCls |-> f.hoveredCls \ {f.locked}]

\* the unlock that the second click, the click-away and the occluded click share:
\* remove 'locked' and 'hovered' from the locked node, null it, clear the hover
Unlock(f) ==
    [locked |-> null, hovered |-> null,
     lockedCls |-> f.lockedCls \ {f.locked},
     hoveredCls |-> (f.hoveredCls \ {f.locked}) \ {f.hovered}]

handleEventClickNoToggle(eventEl, f) ==
    LET hoverCleared == f.hovered # null /\ f.hovered # eventEl
    IN  [locked |-> eventEl,
         hovered |-> IF hoverCleared THEN null ELSE f.hovered,
         lockedCls |-> (f.lockedCls \ {f.locked}) \cup {eventEl},
         hoveredCls |-> (f.hoveredCls \ {f.locked})
                          \ (IF hoverCleared THEN {f.hovered} ELSE {})]

handleEventClick(eventEl, f) ==
    IF f.locked = eventEl
    THEN Unlock(f)
    ELSE LET hoverCleared == f.hovered # null /\ f.hovered # eventEl
         IN  [locked |-> eventEl,
              hovered |-> IF hoverCleared THEN null ELSE f.hovered,
              lockedCls |-> (f.lockedCls \ {f.locked}) \cup {eventEl},
              hoveredCls |-> (f.hoveredCls \ {f.locked})
                               \ (IF hoverCleared THEN {f.hovered} ELSE {})]

\* The parts of an entry a click can land on. "barHidden" is the bar while its
\* computed opacity is 0; "connector" stands for the rest of the container.
ClickParts(node) ==
    {"card", "dot", "connector"}
      \cup (IF node.showRangeBar THEN {"bar", "barHidden"} ELSE {})

\* _setupEventHandlers: whether the entry's own click handlers call _handleClick
EntryAcceptsClick(node, part, hide, f) ==
    IF part = "card"
    THEN ~(hide /\ node.id \notin f.lockedCls /\ node.id \notin f.hoveredCls)
    ELSE ~hide \/ part = "dot" \/ part = "bar"

ClickAwayOnlyOffEntries(target, inLockedBounds, f) ==
    IF f.locked = null THEN "pass"
    ELSE IF target # null THEN "pass"
    ELSE "dismiss"

\* What the capturing document listener of setupClickAwayUnlock does with a
\* click on `target` (a node id, or null for a click on no entry):
\* "pass" lets the click through, "dismiss" unlocks and stops the click.
ClickAway(target, inLockedBounds, f) ==
    IF f.locked = null THEN "pass"
    ELSE IF target = f.locked THEN "pass"
    ELSE IF target # null
         THEN IF target = f.hovered THEN "pass"
              ELSE IF inLockedBounds THEN "dismiss"
              ELSE "pass"
    ELSE "dismiss"

\* one click, through the document listener and then the entry's listeners
ClickResult(target, part, inLockedBounds, hide, f) ==
    IF ClickAway(target, inLockedBounds, f) = "dismiss" THEN Unlock(f)
    ELSE IF target = null THEN f
    ELSE LET node == CHOOSE n \in {track[i] : i \in 1..Len(track)} : n.id = target
         IN  IF EntryAcceptsClick(node, part, hide, f)
             THEN handleEventClick(target, f)
             ELSE f

\* ============================== SMART HOVER ==============================
\* Where the pointer is relative to one entry, as measured by the bounding
\* boxes of its (sibling, non-overlapping) parts:
\*   "away"   in none of card, bar, dot
\*   "card"   in the card
\*   "dot"    within 5px of the dot, at most 50px above/below the card
\*   "bar"    in the bar, at most 50px above/below the card
\*   "barFar" in the bar, more than 50px above/below the card
HitKinds(node) ==
    {"away", "card", "dot"}
      \cup (IF node.showRangeBar THEN {"bar", "barFar"} ELSE {})

\* the hit test of one entry in the mousemove listener
IsUnder(kind, hide) ==
    IF kind = "barFar" THEN FALSE           \* quick bounds check: skipped
    ELSE IF hide THEN kind = "dot" \/ kind = "bar"
    ELSE kind = "card" \/ kind = "bar" \/ kind = "dot"

\* eventsUnderCursor, in DOM order
RECURSIVE EventsUnderCursor(_, _, _, _)
EventsUnderCursor(nodes, hit, hide, i) ==
    IF i > Len(nodes) THEN <<>>
    ELSE (IF IsUnder(hit[i], hide) THEN <<nodes[i].id>> ELSE <<>>)
           \o EventsUnderCursor(nodes, hit, hide, i + 1)

\* Array.prototype.indexOf, 1-based, 0 when absent
IndexOf(seq, x) ==
    IF \E i \in 1..Len(seq) : seq[i] = x
    THEN CHOOSE i \in 1..Len(seq) : seq[i] = x /\ \A j \in 1..(i - 1) : seq[j] # x
    ELSE 0

\* pointer inside the locked entry's card
MouseInLockedBounds(nodes, hit, locked) ==
    \E i \in 1..Len(nodes) : nodes[i].id = locked /\ hit[i] = "card"

HoverCandidatesThroughLocked(nodes, hit, hide, f) ==
    SelectSeq(EventsUnderCursor(nodes, hit, hide, 1), LAMBDA el : el # f.locked)

\* hoverCandidates: the entries under the pointer other than the locked one,
\* none of them while the pointer is inside the locked card
HoverCandidates(nodes, hit, hide, f) ==
    LET under == EventsUnderCursor(nodes, hit, hide, 1)
        others == SelectSeq(under, LAMBDA el : el # f.locked)
    IN  IF f.locked # null /\ others # <<>> /\ MouseInLockedBounds(nodes, hit, f.locked)
        THEN <<>>
        ELSE others

PickHoverTopAlways(cands, hovered, movingDown, movingUp) == cands[Len(cands)]

\* the node the sweep shows among the candidates (topmostEvent)
PickHover(cands, hovered, movingDown, movingUp) ==
    IF Len(cands) = 1 THEN cands[1]
    ELSE LET currentIdx == IF hovered # null THEN IndexOf(cands, hovered) ELSE 0
         IN  IF currentIdx = 0 THEN cands[Len(cands)]
             ELSE IF movingDown THEN cands[Min(currentIdx + 1, Len(cands))]
             ELSE IF movingUp THEN cands[Max(currentIdx - 1, 1)]
             ELSE hovered

smartHoverLeavingMark(cands, movingDown, movingUp, f) ==
    IF cands = <<>>
    THEN IF f.hovered # null /\ f.hovered # f.locked
         THEN [f EXCEPT !.hovered = null, !.hoveredCls = @ \ {f.hovered}]
         ELSE f
    ELSE LET topmostEvent == PickHover(cands, f.hovered, movingDown, movingUp)
         IN  IF topmostEvent = f.hovered THEN f
             ELSE [f EXCEPT !.hovered = topmostEvent,
                            !.hoveredCls = @ \cup {topmostEvent}]

\* the mousemove listener: the focus state it leaves
smartHover(cands, movingDown, movingUp, f) ==
    IF cands = <<>>
    THEN IF f.hovered # null /\ f.hovered # f.locked
         THEN [f EXCEPT !.hovered = null, !.hoveredCls = @ \ {f.hovered}]
         ELSE f
    ELSE LET topmostEvent == PickHover(cands, f.hovered, movingDown, movingUp)
         IN  IF topmostEvent = f.hovered THEN f
             ELSE [f EXCEPT
                     !.hovered = topmostEvent,
                     !.hoveredCls =
                        (IF f.hovered # null /\ f.hovered # f.locked
                         THEN @ \ {f.hovered} ELSE @) \cup {topmostEvent}]

\* the mouseleave listener
mouseLeave(f) ==
    IF f.hovered # null /\ f.hovered # f.locked
    THEN [f EXCEPT !.hovered = null, !.hoveredCls = @ \ {f.hovered}]
    ELSE f

\* =========================== INPUT DOMAINS ===============================

EraInputs == {"CE", "AD", "BCE", "BC", "HE", "ce", "bce", "Bc", "XX"}

\* years the era conversion is tried on: around 0 and around the offset
CalYears == (-MaxCalYear..MaxCalYear)
              \cup {HoloceneOffset + d : d \in -1..2}

ScaleChoices == {DefaultPxPerYear, 2 * DefaultPxPerYear}

\* the start/end years of drawn dataset events (endYear 0: a point event)
EventShapes == {<<9000, 0>>, <<9000, 9500>>, <<11825, 0>>}

CategorySets == {{}, {"a"}, {"b"}, {"a", "b"}}

RawEvent(i, shape, cats) ==
    [id |-> i, year |-> shape[1], hasEnd |-> shape[2] # 0, endYear |-> shape[2],
     categories |-> cats, type |-> "", side |-> ""]

\* events/core.json as drawn for SpecRender: MaxEvents events
RawDatasets ==
    {[i \in 1..MaxEvents |-> RawEvent(i, sh[i], cs[i])] :
        sh \in [1..MaxEvents -> EventShapes], cs \in [1..MaxEvents -> CategorySets]}

\* the dataset of SpecFocus: a categorised and an uncategorised point event
FocusDataset ==
    <<RawEvent(1, <<9000, 0>>, {"a"}),
      RawEvent(2, <<9000, 0>>, {})>>

\* the dataset of SpecHover: three entries whose cards can stack
HoverDataset ==
    <<RawEvent(1, <<9000, 0>>, {"a"}),
      RawEvent(2, <<9000, 9500>>, {}),
      RawEvent(3, <<9001, 0>>, {"a"})>>

\* ranges with a visible bar drawn for one render pass in SpecChan
BarRanges == {<<s, e>> \in (0..MaxYear) \X (0..MaxYear) : s < e}

\* lastInput records the last input event: its kind; for a click the entry
\* clicked and the node that was locked before it; for a mousemove the entries
\* under the pointer, the direction, the node that was hovered before it and
\* the locked node if the pointer is inside its card, and the entries whose bar
\* holds the pointer more than 50px above or below their card;
\* for a blur of a year input the input, the text it held and the window's
\* scroll offset and smooth-scroll target before it
NoInput(kind) ==
    [kind |-> kind, node |-> null, under |-> <<>>, dir |-> "none", prev |-> null,
     far |-> {}]

\* ---- inputs of the date parsers

\* String(n) of a non-negative integer
DigitChar(d) == <<"0", "1", "2", "3", "4", "5", "6", "7", "8", "9">>[d + 1]

RECURSIVE Digits(_)
Digits(n) ==
    IF n < 10 THEN <<DigitChar(n)>>
    ELSE Digits(n \div 10) \o <<DigitChar(n % 10)>>

ParseYears ==
    (0..MaxParseYear) \cup {20, 44, 500, 2025, 3150, 3155, 10000, 12025}

CircaPrefixes ==
    {<<>>, <<"c", ".", " ">>, <<"c", ".">>, <<"C", " ">>,
     <<"c", "i", "r", "c", "a", " ">>}

Leads == {<<>>, <<"H", "E", " ">>, <<"-">>, <<" ">>}

Suffixes ==
    {<<>>, <<" ", "H", "E">>, <<"h", "e">>,
     <<" ", "B", "C", "E">>, <<" ", "B", "C">>, <<"b", "c", "e">>,
     <<" ", "B", ".", "C", ".", "E", ".">>, <<" ", "B", ".", " ", "C", ".">>,
     <<" ", "C", "E">>, <<" ", "A", "D">>, <<"a", "d">>,
     <<" ", "C", ".", "E", ".">>, <<" ", "A", ".", "D", ".", " ">>,
     <<" ", "x">>, <<".", "5">>, <<" ", "B", "C", "E", " ", "C", "E">>}

RawTexts ==
    {<<>>, <<" ">>, <<"H", "E">>, <<"-">>, <<"c", ".">>, <<"B", "C", "E">>,
     PresentText, <<" ", "P", "r", "e", "s", "e", "n", "t", " ">>,
     <<"c", ".", " ", "p", "r", "e", "s", "e", "n", "t">>}

NoParseArg == [kind |-> "number", circa |-> <<>>, lead |-> <<>>, n |-> 0,
               suffix |-> <<>>, raw |-> <<>>]

ParseArgs ==
    {[kind |-> "year", circa |-> c, lead |-> l, n |-> n, suffix |-> x,
      raw |-> <<>>] :
        c \in CircaPrefixes, l \in Leads, n \in ParseYears, x \in Suffixes}
    \cup {[NoParseArg EXCEPT !.n = n] : n \in ParseYears}
    \cup {[NoParseArg EXCEPT !.kind = "raw", !.raw = t] : t \in RawTexts}

\* the dateInput a caller passes for a drawn input
DateInput(arg, withCirca) ==
    [isNumber |-> arg.kind = "number",
     num |-> arg.n,
     text |-> IF arg.kind = "raw" THEN arg.raw
              ELSE (IF withCirca THEN arg.circa ELSE <<>>)
                     \o arg.lead \o Digits(arg.n) \o arg.suffix]

\* ======================= SCROLL AND YEAR DISPLAY ==========================

\* getTrackOffset(): the track's distance from the top of the document, a
\* property of the page layout
TrackOffset == 120

\* window.innerHeight of the drawn viewports (even, so that innerHeight / 2 is
\* whole): half of it below and above TrackOffset
InnerHeights == {160, 800}

DefaultInnerHeight == 800

\* three digits of a thousands group
Pad3(m) == <<DigitChar(m \div 100), DigitChar((m \div 10) % 10), DigitChar(m % 10)>>

\* Number.prototype.toLocaleString of a non-negative integer (groups of three)
RECURSIVE toLocaleString(_)
toLocaleString(n) ==
    IF n < 1000 THEN Digits(n)
    ELSE toLocaleString(n \div 1000) \o <<",">> \o Pad3(n % 1000)

\* value.replace(/,/g, '')
RemoveCommas(t) == SelectSeq(t, LAMBDA c : c # ",")

getReferencePoint(h) == Min(h \div 2, TrackOffset)

\* getYearAtReference() measuring at the top of the viewport
getYearAtTop(scroll, h, px) ==
    Max(0, pixelsToYear(scroll - TrackOffset, px, 0))

\* getYearAtReference(): scroll offsets and scales are whole numbers here, for
\* which the division of pixelsToYear is exact at every tie
getYearAtReference(scroll, h, px) ==
    Max(0, pixelsToYear(scroll + getReferencePoint(h) - TrackOffset, px, 0))

\* the largest scroll offset: the document is the track (as tall as the
\* current year) under TrackOffset and over a bottom padding of 50vh
MaxScrollY(h, px, now) ==
    Max(0, TrackOffset + yearToPixels(now, px) + (h \div 2) - h)

\* where window.scrollTo(top) leaves the window
ScrollTo(top, h, px, now) == Min(Max(0, top), MaxScrollY(h, px, now))

\* what updateYearDisplay() writes for displayYear
Readout(displayYear) ==
    LET converted == fromHoloceneYear(displayYear)
    IN  [he |-> toLocaleString(displayYear),
         ce |-> Digits(converted.year),
         label |-> IF converted.era = "BCE" THEN <<"B", "C", "E">>
                   ELSE <<"C", "E", " ">>]

updateYearDisplayWhileEditing(editing, old, scroll, h, px, now) ==
    Readout(Min(now, getYearAtReference(scroll, h, px)))

\* updateYearDisplay(): nothing while the user is editing
updateYearDisplay(editing, old, scroll, h, px, now) ==
    IF editing THEN old
    ELSE Readout(Min(now, getYearAtReference(scroll, h, px)))

\* scrollToYear(year, {center}): the top it asks window.scrollTo for, -1 when
\* it returns without scrolling
scrollToYear(year, center, scroll, h, px, now) ==
    LET clampedYear == Max(0, Min(now, year))
        yearPositionOnPage == TrackOffset + yearToPixels(clampedYear, px)
        yearViewportPos == yearPositionOnPage - scroll
        visibleTop == TopBarHeight + ScrollPadding
        visibleBottom == h - FooterHeight - ScrollPadding
    IN  IF center
        THEN Max(0, yearPositionOnPage - getReferencePoint(h))
        ELSE IF yearViewportPos >= visibleTop /\ yearViewportPos <= visibleBottom
        THEN -1
        ELSE IF yearViewportPos < visibleTop
        THEN Max(0, yearPositionOnPage - TopBarHeight - ScrollPadding)
        ELSE Max(0, yearPositionOnPage - h + FooterHeight + ScrollPadding)

\* ---- inputs of the year inputs

\* texts a user leaves in a year input that the grammar accepts
GoodTexts ==
    {<<"9", ",", "5", "0", "0">>, Digits(500) \o <<" ", "B", "C", "E">>}

\* texts a user leaves in a year input that match no rule of the grammar
GarbageTexts ==
    {<<>>, <<"9", ",", "5", "x">>}

TypedTexts == GoodTexts \cup GarbageTexts

\* ---- inputs of loadAllDatasets

NumberInput(n) == [isNumber |-> TRUE, num |-> n, text |-> <<>>]
TextInput(t) == [isNumber |-> FALSE, num |-> 0, text |-> t]

\* an event of a dataset file: its year (and endYear) a number or a date text
JsonEvent(id, year, hasEnd, endYear, cats) ==
    [id |-> id, year |-> year, hasEnd |-> hasEnd, endYear |-> endYear,
     categories |-> cats, type |-> ""]

\* the dataset files url u can serve (event ids are unique across files)
JsonBodies(u) ==
    {[Dataset(u, <<>>, {"a"}) EXCEPT !.hasEvents = FALSE],
     Dataset(u, <<JsonEvent(10 * u + 1, TextInput(Digits(11825) \o <<" ", "H", "E">>),
                            FALSE, NumberInput(0), {})>>, {}),
     Dataset(u, <<JsonEvent(10 * u + 1, NumberInput(9000), TRUE,
                            TextInput(Digits(9500)), {"a"}),
                  JsonEvent(10 * u + 2, NumberInput(9000 - u), FALSE,
                            NumberInput(0), {"b"})>>, {"a", "b"})}

\* what fetching url u can come to: the request rejected, a non-OK status
\* (with a JSON error body), a body that is not JSON, a dataset file
FetchOutcomes(u) ==
    {[network |-> "error", status |-> 0, json |-> FALSE, data |-> Dataset(u, <<>>, {})],
     [network |-> "ok", status |-> 404, json |-> TRUE, data |-> Dataset(u, <<>>, {})],
     [network |-> "ok", status |-> 200, json |-> FALSE, data |-> Dataset(u, <<>>, {})]}
      \cup {[network |-> "ok", status |-> 200, json |-> TRUE, data |-> d] :
               d \in JsonBodies(u)}

\* ---- inputs of the public operations (window.timelineAPI)

\* the year arguments of addEvent: numbers and date texts that parse
AddEventYears ==
    {NumberInput(9200),
     TextInput(Digits(500) \o <<" ", "B", "C", "E">>)}

\* the pxPerYear arguments of setScale: whole, beyond maxPxPerYear included
SetScaleArgs == {DefaultPxPerYear, 2 * DefaultPxPerYear, MaxPxPerYear + DefaultPxPerYear}

\* the year arguments of scrollToYear
ScrollToYears == {-1, 9500, 20000}

\* ============================ IDLE VALUES ================================

CalIdle ==
    /\ argYear = 0 /\ argEra = "CE" /\ heYear = 0
    /\ ceResult = [year |-> 0, era |-> ""] /\ heBack = 0 /\ calPc = "idle"

NoYear == [nan |-> FALSE, year |-> 0]

ParseIdle ==
    /\ parseArg = NoParseArg /\ parsed = Year(0, FALSE)
    /\ parsedBare = Year(0, FALSE) /\ parsedCE = NoYear /\ parsePc = "idle"

PixIdle ==
    /\ pixYear = 0 /\ pixScale = 10 * DefaultPxPerYear /\ pixels = 0
    /\ pixBack = 0 /\ pixPc = "idle"

NoWork == [moves |-> 0, scrolls |-> 0, hitTests |-> 0, readouts |-> 0]

RateIdle ==
    /\ scrollThrottle = [scheduled |-> FALSE, lastArgs |-> -1]
    /\ rafCallbacks = 0 /\ frameWork = NoWork

\* index.html holds the #timelineTrack element
PageIdle == hasTrack = TRUE

ProbeIdle == CalIdle /\ ParseIdle /\ PixIdle /\ RateIdle /\ PageIdle

FocusIdle ==
    /\ lockedEvent = null /\ hoveredEvent = null
    /\ lockedCls = {} /\ hoveredCls = {} /\ lastY = -1
    /\ frames = <<>> /\ nudges = {}

\* the window at the top of the page in a viewport h high, no input focused,
\* the readout as `shown`
ViewAt(h, shown) ==
    /\ scrollY = 0 /\ innerHeight = h /\ scrollTarget = -1 /\ scrollTimers = {}
    /\ isEditingYear = FALSE /\ focused = "none"
    /\ yearInput = shown.he /\ yearInputCE = shown.ce /\ yearCELabel = shown.label
    /\ heValueOnFocus = <<>> /\ ceValueOnFocus = <<>>

\* before init() has run updateYearDisplay()
ViewIdle == ViewAt(DefaultInnerHeight, [he |-> <<>>, ce |-> <<>>, label |-> <<>>])

LoadIdle == fetches = <<>> /\ results = <<>> /\ loadPc = "idle"

UiIdle ==
    /\ LoadIdle /\ ViewIdle /\ datasets = <<>>
    /\ allEvents = <<>> /\ pointEvents = <<>> /\ rangeEvents = <<>>
    /\ categories = {} /\ activeFilters = {}
    /\ spreadRanges = TRUE /\ pxPerYear = DefaultPxPerYear
    /\ isMobile = FALSE /\ lastViewportCategory = FALSE /\ hideLabels = FALSE
    /\ channelOccupancy = resetChannels /\ track = <<>> /\ renderCount = 0
    /\ FocusIdle /\ RateIdle /\ PageIdle

\* ======================= SpecCal: era conversion =========================

CalInit ==
    /\ argYear \in CalYears /\ argEra \in EraInputs
    /\ heYear = 0 /\ ceResult = [year |-> 0, era |-> ""] /\ heBack = 0
    /\ calPc = "input"
    /\ ParseIdle /\ PixIdle /\ UiIdle /\ lastInput = NoInput("init")

CallToHoloceneYear ==
    /\ calPc = "input"
    /\ heYear' = toHoloceneYear(argYear, argEra)
    /\ calPc' = "converted"
    /\ UNCHANGED <<argYear, argEra, ceResult, heBack, parseVars, pixVars, uiVars,
                   rateVars, pageVars>>

CallFromHoloceneYear ==
    /\ calPc = "converted"
    /\ ceResult' = fromHoloceneYear(heYear)
    /\ calPc' = "inverted"
    /\ UNCHANGED <<argYear, argEra, heYear, heBack, parseVars, pixVars, uiVars,
                   rateVars, pageVars>>

\* toHoloceneYear applied to the year and era fromHoloceneYear returned
CallToHoloceneYearBack ==
    /\ calPc = "inverted"
    /\ heBack' = toHoloceneYear(ceResult.year, ceResult.era)
    /\ calPc' = "returned"
    /\ UNCHANGED <<argYear, argEra, heYear, ceResult, parseVars, pixVars, uiVars,
                   rateVars, pageVars>>

CalNext == CallToHoloceneYear \/ CallFromHoloceneYear \/ CallToHoloceneYearBack

SpecCal == CalInit /\ [][CalNext]_vars

\* ======================= SpecParse: the date parsers =====================

ParseInit ==
    /\ parseArg \in ParseArgs
    /\ parsed = Year(0, FALSE) /\ parsedBare = Year(0, FALSE)
    /\ parsedCE = NoYear /\ parsePc = "input"
    /\ CalIdle /\ PixIdle /\ UiIdle /\ lastInput = NoInput("init")

CallParseDateToHEWithCirca ==
    /\ parsePc = "input"
    /\ \E now \in CurrentHoloceneYears :
          parsed' = parseDateToHEWithCirca(DateInput(parseArg, TRUE), now)
    /\ parsePc' = "parsed"
    /\ UNCHANGED <<calVars, pixVars, parseArg, parsedBare, parsedCE, uiVars, rateVars, pageVars>>

CallParseWithoutCirca ==
    /\ parsePc = "parsed"
    /\ \E now \in CurrentHoloceneYears :
          parsedBare' = parseDateToHEWithCirca(DateInput(parseArg, FALSE), now)
    /\ parsePc' = "bare"
    /\ UNCHANGED <<calVars, pixVars, parseArg, parsed, parsedCE, uiVars, rateVars, pageVars>>

CallParseCEDateToHE ==
    /\ parsePc = "bare"
    /\ parsedCE' = parseCEDateToHE(DateInput(parseArg, FALSE))
    /\ parsePc' = "ce"
    /\ UNCHANGED <<calVars, pixVars, parseArg, parsed, parsedBare, uiVars, rateVars, pageVars>>

ParseNext ==
    CallParseDateToHEWithCirca \/ CallParseWithoutCirca \/ CallParseCEDateToHE

SpecParse == ParseInit /\ [][ParseNext]_vars

\* ==================== SpecPix: pixel/year conversion =====================

\* CONFIG.pxPerYear in tenths of a pixel: minPxPerYear 0.5 .. maxPxPerYear 20
PixScales == {5, 7, 10, 25, 10 * DefaultPxPerYear, 125, 200}

PixYears == (-1..MaxPixYear) \cup {9000, 9500, 11825, 12025}

PixInit ==
    /\ pixYear \in PixYears /\ pixScale \in PixScales
    /\ pixels = 0 /\ pixBack = 0 /\ pixPc = "input"
    /\ CalIdle /\ ParseIdle /\ UiIdle /\ lastInput = NoInput("init")

CallYearToPixels ==
    /\ pixPc = "input"
    /\ pixels' = yearToPixels(pixYear, pixScale)
    /\ pixPc' = "pixels"
    /\ UNCHANGED <<calVars, parseVars, pixYear, pixScale, pixBack, uiVars, rateVars, pageVars>>

CallPixelsToYear ==
    /\ pixPc = "pixels"
    /\ \E err \in FloatErrors : pixBack' = pixelsToYear(pixels, pixScale, err)
    /\ pixPc' = "year"
    /\ UNCHANGED <<calVars, parseVars, pixYear, pixScale, pixels, uiVars, rateVars, pageVars>>

PixNext == CallYearToPixels \/ CallPixelsToYear

SpecPix == PixInit /\ [][PixNext]_vars

\* ================ SpecChan: one render pass, entry by entry ===============

\* the state after renderTimeline has reset the channels, before its forEach
ChanInit ==
    /\ ProbeIdle /\ LoadIdle /\ ViewIdle /\ datasets = <<>>
    /\ allEvents = <<>> /\ pointEvents = <<>> /\ rangeEvents = <<>>
    /\ categories = {} /\ activeFilters = {}
    /\ spreadRanges \in BOOLEAN /\ pxPerYear = DefaultPxPerYear
    /\ isMobile \in BOOLEAN /\ lastViewportCategory = isMobile
    /\ hideLabels = FALSE
    /\ channelOccupancy = resetChannels /\ track = <<>> /\ renderCount = 1
    /\ FocusIdle
    /\ lastInput = NoInput("init")

\* One iteration of renderTimeline's forEach: the next event of the sorted
\* visible list is a range with a side that loadAllDatasets gave it. The pass
\* is drawn with all its ranges on one side: findAvailableChannel reads and
\* writes channelOccupancy[side] alone.
ChanRenderEntry ==
    /\ Len(track) < MaxEntries
    /\ \E r \in BarRanges,
          side \in (IF track = <<>> THEN {"left", "right"} ELSE {track[1].side}) :
          /\ Len(track) > 0 => track[Len(track)].year <= r[1]
          /\ LET eventData == [id |-> Len(track) + 1, year |-> r[1], hasEnd |-> TRUE,
                               endYear |-> r[2], categories |-> {}, type |-> "",
                               side |-> side]
                 got == TimelineEntry(eventData, Len(track), channelOccupancy,
                                      spreadRanges, isMobile, pxPerYear, renderCount)
             IN  /\ track' = Append(track, got.node)
                 /\ channelOccupancy' = got.occ
    /\ UNCHANGED <<probeVars, loadVars, viewVars, dataVars, cfgVars, renderCount, focusVars, lastInput>>

ChanNext == ChanRenderEntry

SpecChan == ChanInit /\ [][ChanNext]_vars

\* ======================= the year readout in the state =====================

Shown == [he |-> yearInput, ce |-> yearInputCE, label |-> yearCELabel]

SetShown(r) ==
    /\ yearInput' = r.he /\ yearInputCE' = r.ce /\ yearCELabel' = r.label

\* ================= SpecLoad: init() loading its datasets ==================

\* init() has called loadAllDatasets(urls): every fetch is in flight
LoadInit ==
    /\ ProbeIdle
    /\ \E n \in 1..MaxUrls :
          /\ fetches \in [1..n -> UNION {FetchOutcomes(u) : u \in 1..n}]
          /\ \A u \in 1..n : fetches[u] \in FetchOutcomes(u)
          /\ results = [u \in 1..n |-> Pending]
    /\ loadPc = "fetching"
    /\ ViewIdle
    /\ datasets = <<>>
    /\ allEvents = <<>> /\ pointEvents = <<>> /\ rangeEvents = <<>>
    /\ categories = {} /\ activeFilters = {}
    /\ spreadRanges = TRUE /\ pxPerYear = DefaultPxPerYear
    /\ isMobile = FALSE /\ lastViewportCategory = FALSE /\ hideLabels = FALSE
    /\ channelOccupancy = resetChannels /\ track = <<>> /\ renderCount = 0
    /\ FocusIdle
    /\ lastInput = NoInput("init")

\* one loadDataset(url) promise settles; Promise.all fixes no order
\* (lastInput.under records the order the urls settled in)
LoadDatasetSettles ==
    /\ loadPc = "fetching"
    /\ \E u \in DOMAIN results, now \in CurrentHoloceneYears :
          /\ results[u] = Pending
          /\ results' = [results EXCEPT ![u] = loadDataset(fetches[u], now)]
          /\ lastInput' = [NoInput("settled") EXCEPT
                              !.under = Append(lastInput.under, u)]
    /\ UNCHANGED <<probeVars, viewVars, fetches, loadPc, dataVars, cfgVars, domVars,
                   focusVars>>

\* Promise.all has settled: the rest of loadAllDatasets runs (a rejected
\* loadDataset promise would reject loadAllDatasets and init() with it)
LoadAllDatasetsResumes ==
    /\ loadPc = "fetching"
    /\ \A u \in DOMAIN results : results[u] # Pending
    /\ IF \E u \in DOMAIN results : results[u] = Threw
       THEN /\ loadPc' = "rejected"
            /\ UNCHANGED <<dataVars, activeFilters>>
       ELSE LET got == loadAllDatasets(results)
            IN  /\ loadPc' = "merged"
                /\ datasets' = got.datasets
                /\ categories' = got.categories
                /\ allEvents' = got.allEvents
                /\ pointEvents' = got.pointEvents
                /\ rangeEvents' = got.rangeEvents
                /\ activeFilters' = got.activeFilters
    /\ UNCHANGED <<probeVars, viewVars, fetches, results, spreadRanges, pxPerYear, isMobile,
                   lastViewportCategory, hideLabels, domVars, focusVars, lastInput>>

\* init() after `await loadAllDatasets(...)`: renderTimeline(), the setup
\* calls and updateYearDisplay()
InitRenders ==
    /\ loadPc = "merged"
    /\ loadPc' = "rendered"
    /\ LET r == renderTimeline(pointEvents, rangeEvents, activeFilters, spreadRanges,
                               isMobile, pxPerYear, renderCount + 1)
       IN  /\ track' = r.track
           /\ channelOccupancy' = r.occ
           /\ renderCount' = renderCount + 1
    /\ \E now \in CurrentHoloceneYears :
          SetShown(updateYearDisplay(isEditingYear, Shown, scrollY, innerHeight,
                                     pxPerYear, now))
    /\ UNCHANGED <<probeVars, scrollVars, isEditingYear, focused, heValueOnFocus,
                   ceValueOnFocus, fetches, results, dataVars, cfgVars, focusVars,
                   lastInput>>

LoadNext == LoadDatasetSettles \/ LoadAllDatasetsResumes \/ InitRenders

SpecLoad == LoadInit /\ [][LoadNext]_vars

\* ================ UI handlers (SpecRender, SpecFocus, SpecHover) ==========

SetFocus(f) ==
    /\ lockedEvent' = f.locked /\ hoveredEvent' = f.hovered
    /\ lockedCls' = f.lockedCls /\ hoveredCls' = f.hoveredCls

RerenderKeepingChannels(filters, spread, px, f) ==
    LET r == RenderEntries(allEventsForRender(pointEvents, rangeEvents, filters),
                           1, <<>>, channelOccupancy, spread, isMobile, px,
                           renderCount + 1)
        locked == LockedAfterRender(f.locked)
        hovered == HoveredAfterRender(f.hovered)
    IN  /\ track' = r.track
        /\ channelOccupancy' = r.occ
        /\ renderCount' = renderCount + 1
        /\ SetFocus([locked |-> locked, hovered |-> hovered,
                     lockedCls |-> f.lockedCls \cap {locked, hovered},
                     hoveredCls |-> f.hoveredCls \cap {locked, hovered}])
        /\ nudges' = {}
        /\ frames' = frames

\* renderTimeline() run with the (new) filters, spread flag and scale, from
\* focus state f. The discarded nodes take their class marks and their nudge
\* adjustments with them, save a node a STATE reference still holds.
Rerender(filters, spread, px, f) ==
    LET r == renderTimeline(pointEvents, rangeEvents, filters, spread, isMobile,
                            px, renderCount + 1)
        locked == LockedAfterRender(f.locked)
        hovered == HoveredAfterRender(f.hovered)
    IN  /\ track' = r.track
        /\ channelOccupancy' = r.occ
        /\ renderCount' = renderCount + 1
        /\ SetFocus([locked |-> locked, hovered |-> hovered,
                     lockedCls |-> f.lockedCls \cap {locked, hovered},
                     hoveredCls |-> f.hoveredCls \cap {locked, hovered}])
        /\ nudges' = {}
        /\ frames' = frames

\* the state init() leaves: loadAllDatasets, renderTimeline, the setup calls
LoadedInitIn(rawEvents, cats, h) ==
    LET merged == MergeEvents(rawEvents)
        points == PointEventsOf(merged)
        ranges == RangeEventsOf(merged)
        r == renderTimeline(points, ranges, cats, TRUE, FALSE, DefaultPxPerYear, 1)
    IN  /\ ProbeIdle /\ LoadIdle
        /\ \E now \in CurrentHoloceneYears :
              ViewAt(h, Readout(Min(now, getYearAtReference(0, h, DefaultPxPerYear))))
        /\ datasets = <<Dataset(1, merged, cats)>>
        /\ allEvents = merged /\ pointEvents = points /\ rangeEvents = ranges
        /\ categories = cats /\ activeFilters = cats
        /\ spreadRanges = TRUE /\ pxPerYear = DefaultPxPerYear
        /\ isMobile = FALSE /\ lastViewportCategory = FALSE /\ hideLabels = FALSE
        /\ channelOccupancy = r.occ /\ track = r.track /\ renderCount = 1
        /\ FocusIdle
        /\ lastInput = NoInput("init")

LoadedInit(rawEvents, cats) == LoadedInitIn(rawEvents, cats, DefaultInnerHeight)

\* change listener of a filter checkbox (buildFilterUI)
ToggleFilter ==
    /\ renderCount < MaxRenders
    /\ \E key \in categories :
         LET filters == IF key \in activeFilters THEN activeFilters \ {key}
                        ELSE activeFilters \cup {key}
         IN  /\ activeFilters' = filters
             /\ Rerender(filters, spreadRanges, pxPerYear, Focus)
    /\ lastInput' = NoInput("filter")
    /\ UNCHANGED <<probeVars, loadVars, viewVars, dataVars, spreadRanges, pxPerYear, isMobile,
                   lastViewportCategory, hideLabels, lastY>>

\* click listener of #filterAll (setupFilterControls)
FilterAll ==
    /\ renderCount < MaxRenders
    /\ activeFilters' = categories
    /\ Rerender(categories, spreadRanges, pxPerYear, Focus)
    /\ lastInput' = NoInput("filter")
    /\ UNCHANGED <<probeVars, loadVars, viewVars, dataVars, spreadRanges, pxPerYear, isMobile,
                   lastViewportCategory, hideLabels, lastY>>

\* click listener of #filterNone (setupFilterControls)
FilterNone ==
    /\ renderCount < MaxRenders
    /\ activeFilters' = {}
    /\ Rerender({}, spreadRanges, pxPerYear, Focus)
    /\ lastInput' = NoInput("filter")
    /\ UNCHANGED <<probeVars, loadVars, viewVars, dataVars, spreadRanges, pxPerYear, isMobile,
                   lastViewportCategory, hideLabels, lastY>>

\* change listener of #spreadRangesToggle (setupSpreadRangesToggle)
ToggleSpreadRanges ==
    /\ renderCount < MaxRenders
    /\ spreadRanges' = ~spreadRanges
    /\ Rerender(activeFilters, ~spreadRanges, pxPerYear, Focus)
    /\ lastInput' = NoInput("spread")
    /\ UNCHANGED <<probeVars, loadVars, viewVars, dataVars, activeFilters, pxPerYear, isMobile,
                   lastViewportCategory, hideLabels, lastY>>

\* applyScale(newScale): slider input or scale input blur
ApplyScale ==
    /\ renderCount < MaxRenders
    /\ \E newScale \in ScaleChoices \ {pxPerYear}, now \in CurrentHoloceneYears :
         LET currentScrollYear == getYearAtReference(scrollY, innerHeight, pxPerYear)
             newScrollTop == TrackOffset + yearToPixels(currentScrollYear, newScale)
                               - getReferencePoint(innerHeight)
             top == ScrollTo(newScrollTop, innerHeight, newScale, now)
             shown == updateYearDisplay(isEditingYear, Shown, top, innerHeight,
                                        newScale, now)
         IN  /\ pxPerYear' = newScale
             /\ Rerender(activeFilters, spreadRanges, newScale, Focus)
             /\ scrollY' = top
             /\ scrollTarget' = -1
             /\ SetShown(shown)
    /\ lastInput' = NoInput("scale")
    /\ UNCHANGED <<probeVars, loadVars, innerHeight, scrollTimers, isEditingYear,
                   focused, heValueOnFocus, ceValueOnFocus, dataVars, activeFilters,
                   spreadRanges, isMobile, lastViewportCategory, hideLabels, lastY>>

\* the window is resized across the 600px threshold (its height kept): the
\* resize listeners of init() run updateYearDisplay() and (re)arm the 250ms
\* timeout
ResizeAcrossThreshold ==
    /\ isMobile' = ~isMobile
    /\ lastInput' = NoInput("resize")
    /\ \E now \in CurrentHoloceneYears :
          SetShown(updateYearDisplay(isEditingYear, Shown, scrollY, innerHeight,
                                     pxPerYear, now))
    /\ UNCHANGED <<probeVars, loadVars, scrollVars, isEditingYear, focused,
                   heValueOnFocus, ceValueOnFocus, dataVars, activeFilters, spreadRanges, pxPerYear,
                   lastViewportCategory, hideLabels, domVars, focusVars>>

\* the timeout of init()'s resize listener fires with the viewport class changed
ResizeTimeout ==
    /\ renderCount < MaxRenders
    /\ isMobile # lastViewportCategory
    /\ lastViewportCategory' = isMobile
    /\ Rerender(activeFilters, spreadRanges, pxPerYear,
                [locked |-> null, hovered |-> null,
                 lockedCls |-> lockedCls \ {lockedEvent},
                 hoveredCls |-> hoveredCls \ {hoveredEvent}])
    /\ lastInput' = NoInput("viewport")
    /\ UNCHANGED <<probeVars, loadVars, viewVars, dataVars, activeFilters, spreadRanges, pxPerYear,
                   isMobile, hideLabels, lastY>>

\* change listener of #showLabelsToggle (setupShowLabelsToggle)
ToggleShowLabels ==
    /\ hideLabels' = ~hideLabels
    /\ lastInput' = NoInput("labels")
    /\ UNCHANGED <<probeVars, loadVars, viewVars, dataVars, activeFilters, spreadRanges, pxPerYear,
                   isMobile, lastViewportCategory, domVars, focusVars>>

\* Every path of a click that takes the lock from a node runs resetNudge() on
\* it, and handleEventClick queues nudgeIntoView for the node it locks: the
\* adjustments and the callbacks a click leaves, from focus f to focus r
NudgesAfterClick(ns, nodes, f, r) ==
    IF f.locked # null /\ r.locked # f.locked
       /\ f.locked \in {nodes[i].id : i \in 1..Len(nodes)}
    THEN LET node == NodeOf(nodes, f.locked)
         IN  SetAdj(ns, node, resetNudge(AdjOf(ns, node)))
    ELSE ns

FramesAfterClick(queued, f, r) ==
    IF r.locked # null /\ r.locked # f.locked THEN Append(queued, r.locked)
    ELSE queued

\* the listeners of a click on part `part` of track entry t (t = 0: on no
\* entry), inside or outside the locked card's bounding box: the focus state
\* they leave
ClickFocus(t, part, inLockedBounds) ==
    LET target == IF t = 0 THEN null ELSE track[t].id
    IN  /\ SetFocus(ClickResult(target, part, inLockedBounds, hideLabels, Focus))
        /\ lastInput' = [NoInput("click") EXCEPT !.node = target, !.prev = lockedEvent]
        /\ UNCHANGED <<probeVars, loadVars, viewVars, dataVars, cfgVars, domVars, lastY>>

\* a click and the animation frame after it, before any other input, the
\* cards fitting the viewport
ClickOn(t, part, inLockedBounds) ==
    LET target == IF t = 0 THEN null ELSE track[t].id
        r == ClickResult(target, part, inLockedBounds, hideLabels, Focus)
    IN  /\ ClickFocus(t, part, inLockedBounds)
        /\ nudges' = RunFrame(FramesAfterClick(frames, Focus, r),
                              NudgesAfterClick(nudges, track, Focus, r),
                              track, 0, isMobile)
        /\ frames' = <<>>

\* a click whose animation frame is still to come
ClickBeforeFrame(t, part, inLockedBounds) ==
    LET target == IF t = 0 THEN null ELSE track[t].id
        r == ClickResult(target, part, inLockedBounds, hideLabels, Focus)
    IN  /\ Len(frames) < MaxFrames
        /\ ClickFocus(t, part, inLockedBounds)
        /\ nudges' = NudgesAfterClick(nudges, track, Focus, r)
        /\ frames' = FramesAfterClick(frames, Focus, r)

\* how far the untranslated cards are off the padded viewport when measured
CardOverflows == {0, 12}

\* the browser runs an animation frame: the callbacks queued by the clicks
AnimationFrame ==
    /\ frames # <<>>
    /\ \E overflow \in CardOverflows :
          nudges' = RunFrame(frames, nudges, track, overflow, isMobile)
    /\ frames' = <<>>
    /\ lastInput' = NoInput("frame")
    /\ UNCHANGED <<probeVars, loadVars, viewVars, dataVars, cfgVars, domVars,
                   lockedEvent, hoveredEvent, lockedCls, hoveredCls, lastY>>

\* a click can be inside the locked card's bounds only while a node is locked
Click ==
    \E t \in 0..Len(track),
       inLockedBounds \in (IF lockedEvent = null THEN {FALSE} ELSE BOOLEAN) :
       \E part \in (IF t = 0 THEN {"none"} ELSE ClickParts(track[t])) :
          ClickOn(t, part, inLockedBounds)

HitMaps(nodes) ==
    {h \in [1..Len(nodes) -> {"away", "card", "dot", "bar", "barFar"}] :
        \A i \in 1..Len(nodes) : h[i] \in HitKinds(nodes[i])}

\* the mousemove listener run for an event at clientY = y with the pointer
\* placed as `hit` says
MouseMoveHandled(y, hit) ==
    LET movingDown == lastY # -1 /\ y > lastY
        movingUp == lastY # -1 /\ y < lastY
        cands == HoverCandidates(track, hit, hideLabels, Focus)
    IN  /\ lastY' = y
        /\ SetFocus(smartHover(cands, movingDown, movingUp, Focus))
        /\ lastInput' = [kind |-> "mousemove",
                         node |-> IF MouseInLockedBounds(track, hit, lockedEvent)
                                  THEN lockedEvent ELSE null,
                         under |-> EventsUnderCursor(track, hit, hideLabels, 1),
                         dir |-> IF movingDown THEN "down"
                                 ELSE IF movingUp THEN "up" ELSE "none",
                         prev |-> hoveredEvent,
                         far |-> {track[i].id : i \in
                                    {j \in 1..Len(track) : hit[j] = "barFar"}}]
        /\ UNCHANGED <<loadVars, viewVars, dataVars, cfgVars, domVars, nudgeVars>>

\* a mousemove at clientY = y with the pointer placed as `hit` says
MouseMoveAt(y, hit) == MouseMoveHandled(y, hit) /\ UNCHANGED probeVars

MouseMove == \E y \in 0..MaxY, hit \in HitMaps(track) : MouseMoveAt(y, hit)

\* the mouseleave listener of setupSmartHover
MouseLeave ==
    /\ SetFocus(mouseLeave(Focus))
    /\ lastY' = -1
    /\ lastInput' = NoInput("mouseleave")
    /\ UNCHANGED <<probeVars, loadVars, viewVars, dataVars, cfgVars, domVars,
                   nudgeVars>>

\* ============ window scroll (SpecScroll, SpecApi) ===========================

\* window.scrollTo({top, behavior: 'smooth'}): the scroll sets off for the
\* clamped top; target -1 stands for no call
SmoothScrollTo(target, now) ==
    scrollTarget' = IF target = -1 THEN scrollTarget
                    ELSE ScrollTo(target, innerHeight, pxPerYear, now)

\* the offsets the user scrolls to: the top, and around the drawn years
ScrollStops(h, px, now) ==
    {0} \cup {ScrollTo(TrackOffset + yearToPixels(y, px) - getReferencePoint(h) + d,
                       h, px, now) :
                y \in {1, 9000}, d \in {-3, 0, 2}}

\* the user scrolls the window (ending a smooth scroll under way); the scroll
\* listener runs updateYearDisplay() on the next animation frame
UserScroll ==
    /\ \E pos \in ScrollStops(innerHeight, pxPerYear, 2026 + HoloceneOffset) \ {scrollY},
          now \in CurrentHoloceneYears :
          /\ scrollY' = pos
          /\ SetShown(updateYearDisplay(isEditingYear, Shown, pos, innerHeight,
                                        pxPerYear, now))
    /\ scrollTarget' = -1
    /\ lastInput' = NoInput("scroll")
    /\ UNCHANGED <<probeVars, loadVars, innerHeight, scrollTimers, isEditingYear,
                   focused, heValueOnFocus, ceValueOnFocus, dataVars, cfgVars,
                   domVars, focusVars>>

\* a smooth scroll reaches its target; the scroll listener runs
SmoothScrollArrives ==
    /\ scrollTarget # -1
    /\ scrollY' = scrollTarget
    /\ scrollTarget' = -1
    /\ \E now \in CurrentHoloceneYears :
          SetShown(updateYearDisplay(isEditingYear, Shown, scrollTarget, innerHeight,
                                     pxPerYear, now))
    /\ lastInput' = NoInput("scroll")
    /\ UNCHANGED <<probeVars, loadVars, innerHeight, scrollTimers, isEditingYear,
                   focused, heValueOnFocus, ceValueOnFocus, dataVars, cfgVars,
                   domVars, focusVars>>

\* ===================== year inputs (setupYearInput) ========================

ValueOf(which) == IF which = "he" THEN yearInput ELSE yearInputCE
ValueOnFocus(which) == IF which = "he" THEN heValueOnFocus ELSE ceValueOnFocus

\* the focus listeners of #currentYear and #currentYearCE
YearInputFocus ==
    /\ focused = "none"
    /\ \E which \in {"he", "ce"} :
          /\ focused' = which
          /\ IF which = "he"
             THEN /\ heValueOnFocus' = yearInput
                  /\ UNCHANGED <<yearInputCE, ceValueOnFocus>>
             ELSE LET label == trim(yearCELabel)
                      currentEra == IF label = <<>> THEN <<"C", "E">> ELSE label
                      value == RemoveCommas(yearInputCE) \o <<" ">> \o currentEra
                  IN  /\ ceValueOnFocus' = value
                      /\ yearInputCE' = value
                      /\ UNCHANGED heValueOnFocus
          /\ lastInput' = NoInput("edit")
    /\ isEditingYear' = TRUE
    /\ UNCHANGED <<probeVars, loadVars, scrollVars, yearInput, yearCELabel, dataVars,
                   cfgVars, domVars, focusVars>>

\* the user edits the value of the focused input
YearInputType ==
    /\ focused # "none"
    /\ \E text \in TypedTexts \ {ValueOf(focused)} :
          IF focused = "he"
          THEN yearInput' = text /\ UNCHANGED yearInputCE
          ELSE yearInputCE' = text /\ UNCHANGED yearInput
    /\ lastInput' = NoInput("edit")
    /\ UNCHANGED <<probeVars, loadVars, scrollVars, isEditingYear, focused,
                   yearCELabel, heValueOnFocus, ceValueOnFocus, dataVars, cfgVars,
                   domVars, focusVars>>

\* what the blur listener of input `which` parses
BlurTarget(which, now) ==
    LET inputValue == TextInput(trim(RemoveCommas(ValueOf(which))))
    IN  IF which = "he" THEN parseDateToHE(inputValue, now)
        ELSE parseCEDateToHE(inputValue)

\* the blur listeners (Enter blurs the input): navigate if the value changed
\* and parses, else show the year at the reference point again
YearInputBlur ==
    /\ focused # "none"
    /\ focused' = "none"
    /\ isEditingYear' = FALSE
    /\ \E now \in CurrentHoloceneYears :
          LET targetYear == BlurTarget(focused, now)
          IN  IF ValueOf(focused) # ValueOnFocus(focused) /\ ~targetYear.nan
              THEN /\ SmoothScrollTo(scrollToYear(targetYear.year, TRUE, scrollY,
                                                  innerHeight, pxPerYear, now), now)
                   /\ UNCHANGED readoutVars
              ELSE /\ scrollTarget' = scrollTarget
                   /\ SetShown(updateYearDisplay(FALSE, Shown, scrollY, innerHeight,
                                                 pxPerYear, now))
    /\ lastInput' = [NoInput("blur") EXCEPT !.dir = focused,
                                             !.under = ValueOf(focused),
                                             !.node = <<scrollY, scrollTarget>>]
    /\ UNCHANGED <<probeVars, loadVars, scrollY, innerHeight, scrollTimers,
                   heValueOnFocus, ceValueOnFocus, dataVars, cfgVars, domVars,
                   focusVars>>

\* Escape in a year input: the value on focus is restored and the input blurred
YearInputEscape ==
    /\ focused # "none"
    /\ focused' = "none"
    /\ isEditingYear' = FALSE
    /\ \E now \in CurrentHoloceneYears :
          SetShown(updateYearDisplay(FALSE, Shown, scrollY, innerHeight, pxPerYear,
                                     now))
    /\ lastInput' = NoInput("edit")
    /\ UNCHANGED <<probeVars, loadVars, scrollVars, heValueOnFocus, ceValueOnFocus,
                   dataVars, cfgVars, domVars, focusVars>>

\* ================= public operations (window.timelineAPI) ==================

\* the event object addEvent builds (user events carry ids from 100 on)
NewUserEvent(year, now) ==
    [id |-> 100 + Len(allEvents),
     year |-> IF year.isNumber THEN year.num ELSE parseDateToHE(year, now).year,
     hasEnd |-> FALSE, endYear |-> 0, categories |-> {}, type |-> "", side |-> ""]

\* timelineAPI.addEvent(year, title, desc)
ApiAddEvent ==
    /\ renderCount <= MaxRenders
    /\ \E year \in AddEventYears, now \in CurrentHoloceneYears :
          LET newEvent == NewUserEvent(year, now)
          IN  /\ allEvents' = SortByYear(Append(allEvents, newEvent))
              /\ scrollTimers' = scrollTimers \cup {newEvent.year}
              /\ lastInput' = [NoInput("addEvent") EXCEPT !.node = <<0, newEvent.id>>]
    /\ Rerender(activeFilters, spreadRanges, pxPerYear, Focus)
    /\ UNCHANGED <<probeVars, loadVars, scrollY, innerHeight, scrollTarget, inputVars,
                   datasets, pointEvents, rangeEvents, categories, cfgVars, lastY>>

\* the 100ms timeout of addEvent: scrollToYear(newEvent.year, {center: true})
AddEventTimeout ==
    /\ \E year \in scrollTimers, now \in CurrentHoloceneYears :
          /\ scrollTimers' = scrollTimers \ {year}
          /\ SmoothScrollTo(scrollToYear(year, TRUE, scrollY, innerHeight, pxPerYear,
                                         now), now)
    /\ lastInput' = NoInput("scroll")
    /\ UNCHANGED <<probeVars, loadVars, scrollY, innerHeight, inputVars, dataVars,
                   cfgVars, domVars, focusVars>>

\* timelineAPI.loadDataset(url) up to its await: the fetch is in flight
ApiLoadDatasetCall ==
    /\ loadPc = "idle"
    /\ Len(fetches) < MaxUrls - 1
    /\ \E f \in FetchOutcomes(Len(fetches) + 2) :
          /\ fetches' = Append(fetches, f)
          /\ results' = Append(results, Pending)
    /\ UNCHANGED lastInput
    /\ UNCHANGED <<probeVars, loadPc, viewVars, dataVars, cfgVars, domVars, focusVars>>

\* timelineAPI.loadDataset(url) after its await
ApiLoadDatasetResumes ==
    /\ loadPc = "idle"
    /\ renderCount <= MaxRenders
    /\ \E u \in DOMAIN results, now \in CurrentHoloceneYears :
          /\ results[u] = Pending
          /\ LET dataset == loadDataset(fetches[u], now)
                 pushed == Append(datasets, dataset.data)
             IN  /\ results' = [results EXCEPT ![u] = dataset]
                 /\ IF dataset.state = "data"
                    THEN /\ datasets' = pushed
                         /\ allEvents' = SortByYear(FlatMapEvents(pushed))
                         /\ Rerender(activeFilters, spreadRanges, pxPerYear, Focus)
                    ELSE UNCHANGED <<datasets, allEvents, domVars, lockedEvent,
                                     hoveredEvent, lockedCls, hoveredCls, nudgeVars>>
          /\ lastInput' = [NoInput("datasetLoaded") EXCEPT !.node = <<0, u>>]
    /\ UNCHANGED <<probeVars, fetches, loadPc, viewVars, pointEvents, rangeEvents,
                   categories, cfgVars, lastY>>

\* ---- JavaScript numbers of the scale control: NaN, or a number held in
\* hundredths of a pixel per year
ScaleNumber(c) == [nan |-> FALSE, c |-> c]
ScaleNaN == [nan |-> TRUE, c |-> 0]

\* Math.max(CONFIG.minPxPerYear, Math.min(CONFIG.maxPxPerYear, x)); Math.min
\* and Math.max return NaN when an argument is NaN
clampScale(x) ==
    IF x.nan THEN ScaleNaN
    ELSE ScaleNumber(Max(50 * MinPxPerYearHalves, Min(100 * MaxPxPerYear, x.c)))

\* timelineAPI.setScale(pxPerYear) for a whole argument whose clamped value is
\* whole
setScale(arg) == clampScale(ScaleNumber(100 * arg)).c \div 100

\* the offset the browser keeps when the document has become `maxScroll` tall
KeptScroll(scroll, maxScroll) == Min(scroll, maxScroll)

ApiSetScale ==
    /\ renderCount < MaxRenders
    /\ \E arg \in SetScaleArgs, now \in CurrentHoloceneYears :
          /\ setScale(arg) # pxPerYear
          /\ pxPerYear' = setScale(arg)
          /\ Rerender(activeFilters, spreadRanges, setScale(arg), Focus)
          /\ scrollY' = KeptScroll(scrollY, MaxScrollY(innerHeight, setScale(arg), now))
    /\ lastInput' = NoInput("setScale")
    /\ UNCHANGED <<probeVars, loadVars, innerHeight, scrollTarget, scrollTimers,
                   inputVars, dataVars, activeFilters, spreadRanges, isMobile,
                   lastViewportCategory, hideLabels, lastY>>

\* timelineAPI.scrollToYear(year): the mode that scrolls only as needed
ApiScrollToYear ==
    /\ \E year \in ScrollToYears, now \in CurrentHoloceneYears :
          SmoothScrollTo(scrollToYear(year, FALSE, scrollY, innerHeight, pxPerYear,
                                      now), now)
    /\ lastInput' = NoInput("scroll")
    /\ UNCHANGED <<probeVars, loadVars, scrollY, innerHeight, scrollTimers, inputVars,
                   dataVars, cfgVars, domVars, focusVars>>

\* the dataset of SpecApi and SpecScroll: a categorised range and a point
ApiDataset ==
    <<RawEvent(1, <<9000, 9500>>, {"a"}),
      RawEvent(2, <<11825, 0>>, {})>>

\* ============ SpecApi: the public operations on a drawn dataset ============

ApiInit == LoadedInit(ApiDataset, {"a"})

ApiNext ==
    \/ ApiAddEvent \/ AddEventTimeout \/ SmoothScrollArrives
    \/ ApiLoadDatasetCall \/ ApiLoadDatasetResumes
    \/ ApiSetScale \/ ToggleFilter

SpecApi == ApiInit /\ [][ApiNext]_vars

\* ============== SpecRender: a drawn dataset under re-renders ===============

RenderInit == \E raw \in RawDatasets : LoadedInit(raw, {"a", "b"})

RenderNext == ToggleFilter \/ FilterAll \/ FilterNone \/ ToggleSpreadRanges

SpecRender == RenderInit /\ [][RenderNext]_vars

\* ================ SpecFocus: clicks, hover and re-renders ==================

FocusInit == LoadedInit(FocusDataset, {"a"})

\* the pointer moves over the entries along one horizontal line: the sweep
\* direction plays no part in what a re-render does to the focus
MouseMoveAcross == \E hit \in HitMaps(track) : MouseMoveAt(0, hit)

FocusNext ==
    \/ Click \/ MouseMoveAcross \/ MouseLeave \/ ToggleShowLabels
    \/ ToggleFilter \/ FilterAll \/ FilterNone \/ ToggleSpreadRanges
    \/ ApplyScale \/ ResizeAcrossThreshold \/ ResizeTimeout

SpecFocus == FocusInit /\ [][FocusNext]_vars

\* ============ SpecHover: pointer input over one render's entries ===========

HoverInit == LoadedInit(HoverDataset, {"a"})

HoverNext == Click \/ MouseMove \/ MouseLeave \/ ToggleShowLabels

SpecHover == HoverInit /\ [][HoverNext]_vars

\* ================= SpecScroll: scrolling and the scale =====================

ScrollInit == \E h \in InnerHeights : LoadedInitIn(ApiDataset, {"a"}, h)

ScrollNext ==
    \/ UserScroll \/ SmoothScrollArrives \/ ApiScrollToYear
    \/ ApplyScale \/ ApiSetScale

SpecScroll == ScrollInit /\ [][ScrollNext]_vars

\* ============ SpecInput: the year inputs on a scrolling page ================

InputInit == \E h \in InnerHeights : LoadedInitIn(ApiDataset, {"a"}, h)

InputNext ==
    \/ YearInputFocus \/ YearInputType \/ YearInputBlur \/ YearInputEscape
    \/ UserScroll \/ SmoothScrollArrives

SpecInput == InputInit /\ [][InputNext]_vars

\* ================= SpecScale: the scale control ============================
\* A timeline whose datasets hold no events, the page at its top, under the
\* three ways to change the scale. CONFIG.pxPerYear is held as a JavaScript
\* number of the scale control here (ScaleNumber or ScaleNaN), and pixels are
\* whole: the year on the reference line at the top of the page is 0.

\* the length of the run of digits of t from position i on
RECURSIVE DigitRun(_, _)
DigitRun(t, i) ==
    IF i <= Len(t) /\ t[i] \in DigitChars THEN 1 + DigitRun(t, i + 1) ELSE 0

\* parseFloat(text): leading white space, a sign, digits, a fraction; the rest
\* of the text is ignored. The texts drawn carry at most two fraction digits
\* and no exponent.
parseFloat(text) ==
    LET s == trimStart(text)
        neg == s # <<>> /\ s[1] = "-"
        first == IF s # <<>> /\ s[1] \in {"-", "+"} THEN 2 ELSE 1
        intLen == DigitRun(s, first)
        dotAt == first + intLen
        fracLen == IF dotAt <= Len(s) /\ s[dotAt] = "." THEN DigitRun(s, dotAt + 1)
                   ELSE 0
        whole == parseInt(SubSeq(s, first, first + intLen - 1))
        frac == parseInt(SubSeq(s, dotAt + 1, dotAt + fracLen))
        hundredths == 100 * whole + (IF fracLen = 1 THEN 10 * frac ELSE frac)
    IN  IF intLen = 0 /\ fracLen = 0 THEN ScaleNaN
        ELSE ScaleNumber(IF neg THEN -hundredths ELSE hundredths)

\* String(x) of a number of the scale control
ScaleText(x) ==
    IF x.nan THEN <<"N", "a", "N">>
    ELSE LET a == IF x.c < 0 THEN -x.c ELSE x.c
             frac == a % 100
         IN  (IF x.c < 0 THEN <<"-">> ELSE <<>>) \o Digits(a \div 100)
             \o (IF frac = 0 THEN <<>>
                 ELSE IF frac % 10 = 0 THEN <<".", DigitChar(frac \div 10)>>
                 ELSE <<".", DigitChar(frac \div 10), DigitChar(frac % 10)>>)

\* the values of #scaleSlider: min 0.5, max 20, step 0.5
SliderValues ==
    {ScaleNumber(50 * k) : k \in MinPxPerYearHalves..(2 * MaxPxPerYear)}

\* the number arguments of timelineAPI.setScale
SetScaleNumbers ==
    {ScaleNumber(0), ScaleNumber(25), ScaleNumber(750), ScaleNumber(2500),
     ScaleNumber(-300), ScaleNaN}

\* the texts a user leaves in #scaleInput, the scale as shown among them
ScaleTexts(shown) ==
    {<<>>, <<"a", "b", "c">>, <<"0">>, <<"0", ".", "2", "5">>, <<"7", ".", "5">>,
     <<"2", "5">>, <<"-", "3">>, <<" ", "1", "2", "p", "x">>, ScaleText(shown)}

\* getYearAtReference() at a scale of the scale control
scaleYearAtReference(scroll, h, scale) ==
    IF scale.nan THEN [nan |-> TRUE, year |-> 0]
    ELSE [nan |-> FALSE,
          year |-> Max(0, pixelsToYear(100 * (scroll + getReferencePoint(h)
                                               - TrackOffset), scale.c, 0))]

\* applyScale's window.scrollTo(0, Math.max(0, newScrollTop)): a NaN top is
\* taken as 0
scaleRestoredTop(year, h, newScale) ==
    IF year.nan \/ newScale.nan THEN 0
    ELSE Max(0, TrackOffset + MathFloor(yearToPixels(year.year, newScale.c), 100)
                  - getReferencePoint(h))

\* updateYearDisplay() at a scale of the scale control
scaleUpdateYearDisplay(editing, old, scroll, h, scale, now) ==
    LET year == scaleYearAtReference(scroll, h, scale)
    IN  IF editing THEN old
        ELSE IF year.nan
        THEN [he |-> <<"N", "a", "N">>, ce |-> <<"N", "a", "N">>,
              label |-> <<"B", "C", "E">>]
        ELSE Readout(Min(now, year.year))

ScaleInit ==
    /\ ProbeIdle /\ LoadIdle
    /\ ViewAt(DefaultInnerHeight, Readout(0))
    /\ datasets = <<Dataset(1, <<>>, {})>>
    /\ allEvents = <<>> /\ pointEvents = <<>> /\ rangeEvents = <<>>
    /\ categories = {} /\ activeFilters = {}
    /\ spreadRanges = TRUE /\ pxPerYear = ScaleNumber(100 * DefaultPxPerYear)
    /\ isMobile = FALSE /\ lastViewportCategory = FALSE /\ hideLabels = FALSE
    /\ channelOccupancy = resetChannels /\ track = <<>> /\ renderCount = 1
    /\ FocusIdle
    /\ lastInput = NoInput("init")

\* applyScale(newScale) on the page of SpecScale
ScaleApplied(newScale) ==
    \E now \in CurrentHoloceneYears :
       LET currentScrollYear == scaleYearAtReference(scrollY, innerHeight, pxPerYear)
           top == scaleRestoredTop(currentScrollYear, innerHeight, newScale)
       IN  /\ pxPerYear' = newScale
           /\ Rerender(activeFilters, spreadRanges, newScale, Focus)
           /\ scrollY' = top
           /\ scrollTarget' = -1
           /\ SetShown(scaleUpdateYearDisplay(isEditingYear, Shown, top, innerHeight,
                                              newScale, now))
           /\ UNCHANGED <<probeVars, loadVars, innerHeight, scrollTimers,
                          isEditingYear, focused, heValueOnFocus, ceValueOnFocus,
                          dataVars, activeFilters, spreadRanges, isMobile,
                          lastViewportCategory, hideLabels, lastY>>

\* input listener of #scaleSlider
ScaleSliderInput ==
    /\ renderCount <= MaxRenders
    /\ \E value \in SliderValues :
          /\ ScaleApplied(parseFloat(ScaleText(value)))
          /\ lastInput' = [NoInput("slider") EXCEPT !.under = ScaleText(value)]

\* blur listener of #scaleInput, the input holding `text`
ScaleInputBlur ==
    /\ renderCount <= MaxRenders
    /\ \E text \in ScaleTexts(pxPerYear) :
          LET parsedScale == parseFloat(text)
              newScale == IF parsedScale.nan THEN pxPerYear ELSE parsedScale
          IN  /\ ScaleApplied(clampScale(newScale))
              /\ lastInput' = [NoInput("scaleBlur") EXCEPT !.under = text]

\* timelineAPI.setScale(pxPerYear) with a number: the page at its top stays
\* there
ScaleSetScale ==
    /\ renderCount <= MaxRenders
    /\ \E arg \in SetScaleNumbers :
          /\ pxPerYear' = clampScale(arg)
          /\ Rerender(activeFilters, spreadRanges, clampScale(arg), Focus)
          /\ lastInput' = [NoInput("setScale") EXCEPT !.under = ScaleText(arg)]
    /\ UNCHANGED <<probeVars, loadVars, viewVars, dataVars, activeFilters,
                   spreadRanges, isMobile, lastViewportCategory, hideLabels, lastY>>

ScaleNext == ScaleSliderInput \/ ScaleInputBlur \/ ScaleSetScale

SpecScale == ScaleInit /\ [][ScaleNext]_vars

\* ============ SpecBar: datasets of typed events, rendered ===================

\* the type property of a dataset event ("": none)
EventTypes == {"", "event", "person"}

\* start and end years: a point, a range of no duration, a range
BarShapes == {<<9000, 0>>, <<9000, 9000>>, <<9000, 9500>>}

TypedEvent(i, shape, type) == [RawEvent(i, shape, {}) EXCEPT !.type = type]

BarDatasets ==
    {<<TypedEvent(1, s1, t1), TypedEvent(2, s2, t2)>> :
        s1 \in BarShapes, t1 \in EventTypes, s2 \in BarShapes, t2 \in EventTypes}

BarInit == \E raw \in BarDatasets : LoadedInit(raw, {})

BarNext == ToggleSpreadRanges

SpecBar == BarInit /\ [][BarNext]_vars

\* ============ SpecNudge: clicks and the animation frames after them ========
\* A range with a spread bar and a point event, on a narrow or a wide
\* viewport; the frame a click asks for comes after any number of further
\* clicks.

NudgeDataset ==
    <<RawEvent(1, <<9000, 9500>>, {}),
      RawEvent(2, <<9000, 0>>, {})>>

NudgeInit ==
    \E mobile \in BOOLEAN :
       LET merged == MergeEvents(NudgeDataset)
           points == PointEventsOf(merged)
           ranges == RangeEventsOf(merged)
           r == renderTimeline(points, ranges, {}, TRUE, mobile, DefaultPxPerYear, 1)
       IN  /\ ProbeIdle /\ LoadIdle
           /\ ViewAt(DefaultInnerHeight, Readout(0))
           /\ datasets = <<Dataset(1, merged, {})>>
           /\ allEvents = merged /\ pointEvents = points /\ rangeEvents = ranges
           /\ categories = {} /\ activeFilters = {}
           /\ spreadRanges = TRUE /\ pxPerYear = DefaultPxPerYear
           /\ isMobile = mobile /\ lastViewportCategory = mobile
           /\ hideLabels = FALSE
           /\ channelOccupancy = r.occ /\ track = r.track /\ renderCount = 1
           /\ FocusIdle
           /\ lastInput = NoInput("init")

NudgeClick ==
    \E t \in 0..Len(track),
       inLockedBounds \in (IF lockedEvent = null THEN {FALSE} ELSE BOOLEAN) :
       \E part \in (IF t = 0 THEN {"none"} ELSE ClickParts(track[t])) :
          ClickBeforeFrame(t, part, inLockedBounds)

NudgeNext == NudgeClick \/ AnimationFrame

SpecNudge == NudgeInit /\ [][NudgeNext]_vars

\* ======================= CLAIMS: era conversion ==========================

\* C9 (as claimed): for every integer y other than 0, negative ones included,
\* fromHoloceneYear(toHoloceneYear(y, 'CE')) is {year: y, era: 'CE'}.
C9_RoundTripEveryNonZeroYear ==
    (calPc = "inverted" /\ argEra = "CE" /\ argYear # 0)
        => ceResult = [year |-> argYear, era |-> "CE"]

\* C9 (amended): for every integer y >= 1,
\* fromHoloceneYear(toHoloceneYear(y, 'CE')) is {year: y, era: 'CE'}; a negative
\* y comes back as the BCE year 1 - y.
C9_RoundTripPositiveYear ==
    /\ (calPc = "inverted" /\ argEra = "CE" /\ argYear >= 1)
          => ceResult = [year |-> argYear, era |-> "CE"]
    /\ (calPc = "inverted" /\ argEra = "CE" /\ argYear < 0)
          => ceResult = [year |-> 1 - argYear, era |-> "BCE"]

C9_Witness ==
    calPc = "inverted" /\ argEra = "CE" /\ argYear = 2 /\ ceResult.year = 2

\* C10 (as claimed): toHoloceneYear(1, 'BCE') and toHoloceneYear(0, 'BCE') both
\* return 10000.
C10_ZeroAndOneBceCollapse ==
    (calPc = "converted" /\ argEra = "BCE" /\ argYear \in {0, 1})
        => heYear = 10000

\* C10 (amended): toHoloceneYear(1, 'BCE') returns 10000 and
\* toHoloceneYear(0, 'BCE') returns 10001: the era conversion itself does not
\* collapse year zero.
C10_OnlyOneBceIsTenThousand ==
    /\ (calPc = "converted" /\ argEra = "BCE" /\ argYear = 1) => heYear = 10000
    /\ (calPc = "converted" /\ argEra = "BCE" /\ argYear = 0) => heYear = 10001

C10_Witness ==
    calPc = "converted" /\ argEra = "BCE" /\ argYear = 0 /\ heYear > 10000

\* ====================== CLAIMS: channel allocator ========================

\* the entries of the track on one side that draw a range bar, in arrival order
BarsOn(side) == SelectSeq(track, LAMBDA n : n.side = side /\ n.showRangeBar)

DisjointRanges(a, b) == a.endYear < b.year \/ b.endYear < a.year

\* C5: within one render and on one side, with spreading on, two ranges with
\* disjoint [start,end] both get lane 1, two overlapping ranges get different
\* lanes, and three mutually overlapping ranges get lanes 1, 2, 3 in arrival
\* order.
C5_LanesOfTwoAndThreeRanges ==
    spreadRanges =>
      \A side \in {"left", "right"} :
        LET A == BarsOn(side) IN
        /\ (Len(A) = 2 /\ DisjointRanges(A[1], A[2]))
              => (A[1].channel = 1 /\ A[2].channel = 1)
        /\ (Len(A) = 2 /\ ~DisjointRanges(A[1], A[2]))
              => A[1].channel # A[2].channel
        /\ (Len(A) = 3 /\ ~DisjointRanges(A[1], A[2]) /\ ~DisjointRanges(A[1], A[3])
              /\ ~DisjointRanges(A[2], A[3]))
              => <<A[1].channel, A[2].channel, A[3].channel>> = <<1, 2, 3>>

C5_Witness ==
    /\ spreadRanges
    /\ \E side \in {"left", "right"} :
         LET A == BarsOn(side) IN
         /\ Len(A) = 3
         /\ ~DisjointRanges(A[1], A[2]) /\ ~DisjointRanges(A[1], A[3])
         /\ ~DisjointRanges(A[2], A[3])
         /\ A[3].channel = 3

\* C6 (as claimed): for any number of visible ranges on one side in one render,
\* more mutually overlapping ones than there are lanes included, no two ranges
\* whose [start,end] overlap are given the same lane.
C6_OverlappingRangesNeverShareALane ==
    spreadRanges =>
      \A side \in {"left", "right"} :
        LET A == BarsOn(side) IN
        \A i, j \in 1..Len(A) :
          (i < j /\ ~DisjointRanges(A[i], A[j])) => A[i].channel # A[j].channel

\* C6 (amended): no two ranges whose [start,end] overlap are given the same
\* lane, except the last lane (15 on desktop, 4 on narrow viewports): a range
\* that overlaps an earlier range in every lane 1..max is given lane max too.
C6_OverlappingRangesShareOnlyTheLastLane ==
    spreadRanges =>
      \A side \in {"left", "right"} :
        LET A == BarsOn(side)
            maxChannels == getMobileChannelConfig(isMobile).maxChannels
        IN
        \A i, j \in 1..Len(A) :
          (i < j /\ ~DisjointRanges(A[i], A[j]) /\ A[i].channel = A[j].channel)
            => /\ A[j].channel = maxChannels
               /\ \A c \in 1..maxChannels :
                    \E k \in 1..(j - 1) :
                       A[k].channel = c /\ ~DisjointRanges(A[k], A[j])

C6_Witness ==
    /\ spreadRanges /\ isMobile
    /\ \E side \in {"left", "right"} :
         LET A == BarsOn(side) IN
         \E i, j \in 1..Len(A) :
            i < j /\ ~DisjointRanges(A[i], A[j]) /\ A[i].channel = A[j].channel

\* ======================= CLAIMS: filters and sides =======================

RenderedEvents == {track[i].ev : i \in 1..Len(track)}

\* C7: the side of an event is unchanged by filter changes and re-renders: an
\* event drawn both before and after a filter toggle, select-all, select-none
\* (or spread toggle) has the same side in both renders.
C7_SideUnchangedByFilters ==
    [][\A i \in 1..Len(track), j \in 1..Len(track') :
          track[i].ev = track'[j].ev => track[i].side = track'[j].side]_vars

\* an entry drawn at a position whose parity differs from its side, after a
\* re-render that hid some event
C7_Witness ==
    /\ renderCount > 1 /\ activeFilters # categories
    /\ Len(track) < Len(allEvents)
    /\ \E i \in 1..Len(track) : track[i].side # SideOfIndex(i - 1)

C1_ClickLocksTogglesAndTransfers ==
    (lastInput.kind = "click" /\ lastInput.node # null)
      => IF lastInput.prev = lastInput.node
         THEN lockedEvent = null
         ELSE /\ lockedEvent = lastInput.node
              /\ lastInput.prev \notin lockedCls

\* the click lands where the listeners act on it: not inside the locked card's
\* bounds when it is on another node that is not the hovered one, and with
\* labels hidden only on a dot, a visible bar, or the card of a node marked
\* locked or hovered
ClickTakesEffect(id, part, inLockedBounds) ==
    /\ (lockedEvent # null /\ id # lockedEvent /\ id # hoveredEvent)
          => ~inLockedBounds
    /\ hideLabels
          => \/ part \in {"dot", "bar"}
             \/ part = "card" /\ id \in (lockedCls \cup hoveredCls)

\* C1 (amended): for a click that takes effect (see ClickTakesEffect): on A
\* while nothing is locked it locks A; on the locked node it leaves nothing
\* locked; on a distinct node B while A is locked it locks B and unlocks A in
\* that one click.
C1_EffectiveClickLocksTogglesAndTransfers ==
    [][\A t \in 1..Len(track), inLockedBounds \in BOOLEAN :
         \A part \in ClickParts(track[t]) :
           (ClickOn(t, part, inLockedBounds)
              /\ ClickTakesEffect(track[t].id, part, inLockedBounds))
             => IF lockedEvent = track[t].id
                THEN lockedEvent' = null /\ lockedCls' = {}
                ELSE lockedEvent' = track[t].id /\ lockedCls' = {track[t].id}]_vars

\* the lock has moved from one node to another in one click
C1_Witness ==
    /\ lastInput.kind = "click" /\ lastInput.node # null
    /\ lastInput.prev # null /\ lastInput.prev # lastInput.node
    /\ lockedEvent = lastInput.node
    /\ lastInput.prev \notin lockedCls

\* C2: after any sequence of clicks, pointer moves, filter toggles, scale
\* changes, viewport-class changes and renders, STATE.lockedEvent is null or a
\* node of the most recent render, and at most one node of the track carries
\* the locked mark (the locked node).
C2_LockedIsNullOrRendered ==
    /\ lockedEvent = null \/ lockedEvent \in NodeIds(track)
    /\ Cardinality(lockedCls \cap NodeIds(track)) <= 1
    /\ (lockedCls \cap NodeIds(track)) \subseteq {lockedEvent}

\* a node locked in a later render, after the lock of an earlier one
C2_Witness ==
    /\ renderCount > 1
    /\ lockedEvent # null /\ lockedEvent \in NodeIds(track)
    /\ lockedEvent \in lockedCls

RenderInputs == {"filter", "spread", "scale", "viewport"}

\* C3 (as claimed): every re-render (filter change, spread-ranges toggle, scale
\* change, viewport-class change) leaves both STATE.lockedEvent and
\* STATE.hoveredEvent null.
C3_RerenderClearsLockedAndHovered ==
    lastInput.kind \in RenderInputs
       => (lockedEvent = null /\ hoveredEvent = null)

\* ============================ CLAIMS: hover ===============================

\* C4: with nothing locked and the three entries A, B, C (draw order) under
\* the pointer: a move with no current candidate among them selects C; a
\* downward move steps one entry on and keeps C at C; an upward move steps one
\* entry back (C to B, B to A) and keeps A at A; a move with no vertical change
\* keeps the current candidate.
C4_SweepThroughStack ==
    (/\ Len(track) = 3
     /\ lastInput.kind = "mousemove"
     /\ lastInput.under = <<track[1].id, track[2].id, track[3].id>>
     /\ lockedEvent = null)
      => LET A == track[1].id
             B == track[2].id
             C == track[3].id
             was == lastInput.prev
         IN  hoveredEvent =
               IF was \notin {A, B, C} THEN C
               ELSE IF lastInput.dir = "down" THEN (IF was = A THEN B ELSE C)
               ELSE IF lastInput.dir = "up" THEN (IF was = C THEN B ELSE A)
               ELSE was

\* an upward move has stepped the candidate from B back to A
C4_Witness ==
    /\ Len(track) = 3
    /\ lastInput.kind = "mousemove" /\ lastInput.dir = "up"
    /\ lastInput.under = <<track[1].id, track[2].id, track[3].id>>
    /\ lockedEvent = null
    /\ lastInput.prev = track[2].id
    /\ hoveredEvent = track[1].id

\* ========================= CLAIMS: date parsers ===========================

\* the drawn input is the number n written out, with this lead and suffix
Written(lead, suffix) ==
    parseArg.kind = "year" /\ parseArg.lead = lead /\ parseArg.suffix = suffix

BothParsed == parsePc = "ce"

\* C11: for every non-negative integer n, parseDateToHE of "n HE" or "HE n" is
\* n; of "n BCE" / "n BC" (n >= 2) is 10001 - n; of "n CE" / "n AD" (n >= 1) is
\* n + 10000; of the bare text "n" is n; parseCEDateToHE of the bare text "n"
\* (n >= 1) is n + 10000.
C11_ParsedYearOfEachForm ==
    BothParsed =>
      LET n == parseArg.n
          he == parsedBare
          ok(v) == ~he.nan /\ he.year = v
      IN  /\ Written(<<>>, <<" ", "H", "E">>) => ok(n)
          /\ Written(<<"H", "E", " ">>, <<>>) => ok(n)
          /\ (Written(<<>>, <<" ", "B", "C", "E">>) /\ n >= 2) => ok(10001 - n)
          /\ (Written(<<>>, <<" ", "B", "C">>) /\ n >= 2) => ok(10001 - n)
          /\ (Written(<<>>, <<" ", "C", "E">>) /\ n >= 1) => ok(n + 10000)
          /\ (Written(<<>>, <<" ", "A", "D">>) /\ n >= 1) => ok(n + 10000)
          /\ Written(<<>>, <<>>) => ok(n)
          /\ (Written(<<>>, <<>>) /\ n >= 1)
                => (~parsedCE.nan /\ parsedCE.year = n + 10000)

\* "2025" parsed as HE 2025 by parseDateToHE and as HE 12025 by parseCEDateToHE
C11_Witness ==
    /\ BothParsed /\ Written(<<>>, <<>>) /\ parseArg.n = 2025
    /\ parsedBare.year = 2025 /\ parsedCE.year = 12025

CircaWritten(lead, suffix) ==
    Written(lead, suffix) /\ parseArg.circa = <<"c", ".", " ">>

\* C12 (as claimed): for a BCE year n that is a multiple of 10 (other than
\* 10000) the circa parse of "c. n BCE" is one greater than the non-circa parse
\* of "n BCE"; for n not a multiple of 10 the two are equal.
C12_CircaBumpIsOneGreater ==
    (BothParsed /\ CircaWritten(<<>>, <<" ", "B", "C", "E">>))
      => IF parseArg.n % 10 = 0 /\ parseArg.n # 10000
         THEN parsed.year = parsedBare.year + 1
         ELSE parsed.year = parsedBare.year

\* C12 (amended): for a BCE year n >= 10 that is a multiple of 10 (other than
\* 10000) the circa parse of "c. n BCE" (or "c. -n") is one LESS than the
\* non-circa parse (the BCE year is raised by one); for n = 0, n = 10000 and n
\* not a multiple of 10 the two parses are equal.
C12_CircaBumpIsOneLess ==
    (/\ BothParsed
     /\ \/ CircaWritten(<<>>, <<" ", "B", "C", "E">>)
        \/ CircaWritten(<<"-">>, <<>>))
      => /\ ~parsed.nan /\ ~parsedBare.nan /\ parsed.circa /\ ~parsedBare.circa
         /\ IF parseArg.n % 10 = 0 /\ parseArg.n # 10000 /\ parseArg.n >= 10
            THEN parsed.year = parsedBare.year - 1
            ELSE parsed.year = parsedBare.year

\* "c. 3150 BCE" is HE 6850, "3150 BCE" is HE 6851
C12_Witness ==
    /\ BothParsed /\ CircaWritten(<<>>, <<" ", "B", "C", "E">>)
    /\ parseArg.n = 3150
    /\ parsed.year = 6850 /\ parsedBare.year = 6851

\* ======================= CLAIMS: pixel conversion ========================

\* C13: for every integer year y >= 0 and every fixed scale in the allowed
\* range, pixelsToYear(yearToPixels(y)) is y.
C13_PixelRoundTrip ==
    (pixPc = "year" /\ pixYear >= 0) => pixBack = pixYear

\* HE 11825 at 0.7 px/year comes back as 11825
C13_Witness ==
    pixPc = "year" /\ pixYear = 11825 /\ pixScale = 7 /\ pixBack = 11825

\* ======================== CLAIMS: entry geometry =========================

\* the loaded dataset is one point event at HE 11825 and one range HE 9000-9500,
\* both drawn, at 5 px/year
TwoEventDataset ==
    /\ Len(allEvents) = 2 /\ Len(track) = 2 /\ pxPerYear = 5
    /\ track[1].year = 9000 /\ track[1].isRange /\ track[1].endYear = 9500
    /\ track[2].year = 11825 /\ ~track[2].isRange

\* the height of the duration indicator entry n renders (none: 0)
IndicatorHeight(n) == IF n.showRangeBar THEN n.adjustedBarHeight ELSE 0

SucceededUrls ==
    {u \in DOMAIN fetches :
        fetches[u].network = "ok" /\ fetches[u].status = 200 /\ fetches[u].json}

EventIdsOfUrl(u) ==
    IF fetches[u].data.hasEvents
    THEN {fetches[u].data.events[i].id : i \in DOMAIN fetches[u].data.events}
    ELSE {}

LoadCompleted == loadPc \in {"merged", "rendered"}

\* C15: when some fetches of loadAllDatasets fail (request rejected, non-OK
\* status, body not JSON) and others succeed, the load never ends rejected and,
\* once it has completed, STATE.datasets holds exactly the datasets of the
\* succeeded urls, in url order, and STATE.allEvents exactly their events.
C15_FailedFetchesAreSkipped ==
    /\ loadPc # "rejected"
    /\ LoadCompleted
          => /\ Len(datasets) = Cardinality(SucceededUrls)
             /\ {datasets[i].id : i \in DOMAIN datasets} = SucceededUrls
             /\ \A i, j \in DOMAIN datasets : i < j => datasets[i].id < datasets[j].id
             /\ {allEvents[i].id : i \in DOMAIN allEvents}
                   = UNION {EventIdsOfUrl(u) : u \in SucceededUrls}
             /\ Len(allEvents)
                   = Cardinality(UNION {EventIdsOfUrl(u) : u \in SucceededUrls})

\* a load of two urls, one failed and one succeeded with events, has completed
C15_Witness ==
    /\ loadPc = "rendered"
    /\ Len(fetches) = 2 /\ Cardinality(SucceededUrls) = 1
    /\ Len(datasets) = 1 /\ Len(allEvents) = 2 /\ Len(track) = 2

\* ===================== CLAIMS: the public operations ======================


\* C16 (as claimed): after timelineAPI.addEvent with a parseable year the new,
\* uncategorised event is in the list getEvents returns and the re-render
\* addEvent performs has emitted a node for it; every event of STATE.allEvents
\* that passes the filter is drawn, whatever public operations have run.
C16_AddedEventIsDrawn ==
    /\ lastInput.kind = "addEvent"
          => /\ \E i \in DOMAIN allEvents : allEvents[i].id = lastInput.node[2]
             /\ lastInput.node[2] \in RenderedEvents
    /\ \A i \in DOMAIN allEvents :
          eventPassesFilter(allEvents[i], activeFilters)
             => allEvents[i].id \in RenderedEvents

\* the dataset timelineAPI.loadDataset has just loaded and pushed
JustLoaded ==
    IF lastInput.kind = "datasetLoaded" /\ results[lastInput.node[2]].state = "data"
    THEN {datasets[Len(datasets)]}
    ELSE {}

\* C17 (as claimed): after timelineAPI.loadDataset(url) succeeds, the new
\* dataset's events are in the point/range partitions renderTimeline draws
\* from, every merged event has a side, and the new dataset's categories are
\* in the category table.
C17_LoadedDatasetIsMerged ==
    \A d \in JustLoaded :
       /\ \A i \in DOMAIN d.events :
             d.events[i].id \in {(pointEvents \o rangeEvents)[j].id :
                                    j \in DOMAIN (pointEvents \o rangeEvents)}
       /\ \A i \in DOMAIN allEvents : allEvents[i].side \in {"left", "right"}
       /\ d.categories \subseteq categories

\* ==================== CLAIMS: scale and scroll position ===================

\* the year on the reference line: round((scrollY + reference - track offset)
\* / scale), not below 0
ReferenceLine == IF innerHeight \div 2 < TrackOffset THEN innerHeight \div 2 ELSE TrackOffset

YearOnReferenceLine(scroll, px) ==
    LET into == scroll + ReferenceLine - TrackOffset
        year == (2 * into + px) \div (2 * px)
    IN  IF year < 0 THEN 0 ELSE year

\* the offset that puts `year` on the reference line at scale px is one the
\* window can scroll to
WithinScrollableRange(year, px) ==
    LET top == TrackOffset + year * px - ReferenceLine
    IN  /\ top >= 0
        /\ \A now \in CurrentHoloceneYears :
              top <= TrackOffset + now * px + (innerHeight \div 2) - innerHeight

\* C18: a scale change through applyScale (scale slider, scale input) keeps the
\* year on the reference line: the year there before the change is the year
\* there after the new scale is applied, the timeline re-rendered and the
\* window scrolled, when the target offset is within the scrollable range.
C18_ApplyScaleKeepsYear ==
    [][(ApplyScale
          /\ WithinScrollableRange(YearOnReferenceLine(scrollY, pxPerYear), pxPerYear'))
         => YearOnReferenceLine(scrollY', pxPerYear')
               = YearOnReferenceLine(scrollY, pxPerYear)]_vars

\* applyScale has moved the window to keep a year other than the scrolled-to
\* ones on the reference line
C18_Witness ==
    /\ lastInput.kind = "scale" /\ pxPerYear = 2 * DefaultPxPerYear
    /\ scrollY > 0
    /\ YearOnReferenceLine(scrollY, pxPerYear) \notin {0, 1, 9000}
    /\ scrollY = TrackOffset + YearOnReferenceLine(scrollY, pxPerYear) * pxPerYear
                   - ReferenceLine

\* C19 (as claimed): a scale change through timelineAPI.setScale keeps the year
\* on the reference line too.
C19_SetScaleKeepsYear ==
    [][ApiSetScale
         => YearOnReferenceLine(scrollY', pxPerYear')
               = YearOnReferenceLine(scrollY, pxPerYear)]_vars

\* ======================== CLAIMS: the year inputs =========================

\* texts that match no rule of either grammar: a number followed by what no
\* rule allows, a bare sign or era, nothing at all
UnparseableTexts ==
    GarbageTexts
      \cup {l \o Digits(n) \o x :
              l \in {<<>>, <<"-">>}, n \in {500},
              x \in {<<" ", "x">>, <<".", "5">>,
                     <<" ", "B", "C", "E", " ", "C", "E">>}}
      \cup {<<" ">>, <<"-">>, <<"B", "C", "E">>}

\* C20: parseDateToHE and parseCEDateToHE return the not-a-number sentinel for
\* every text that matches no grammar rule; and when a year input loses focus
\* holding such a text no scroll is requested, the scroll position is
\* unchanged, editing has ended and the readout shows the year at the
\* reference point of the current scroll position.
C20_GarbageIsRejectedOnBlur ==
    (lastInput.kind = "blur" /\ lastInput.under \in GarbageTexts)
          => /\ \A t \in UnparseableTexts, now \in CurrentHoloceneYears :
                   /\ parseDateToHE(TextInput(t), now).nan
                   /\ parseCEDateToHE(TextInput(t)).nan
             /\ scrollY = lastInput.node[1] /\ scrollTarget = lastInput.node[2]
             /\ ~isEditingYear
             /\ \A now \in CurrentHoloceneYears :
                   LET year == YearOnReferenceLine(scrollY, pxPerYear)
                       shown == IF year > now THEN now ELSE year
                   IN  /\ yearInput = toLocaleString(shown)
                       /\ yearInputCE = Digits(fromHoloceneYear(shown).year)

\* a year input has lost focus holding a text of no grammar rule, the window
\* scrolled away from the top
C20_Witness ==
    /\ lastInput.kind = "blur" /\ lastInput.under \in GarbageTexts \ {<<>>}
    /\ scrollY > 0 /\ ~isEditingYear /\ focused = "none"
    /\ yearInput = toLocaleString(YearOnReferenceLine(scrollY, pxPerYear))

\* ======================= CLAIMS: hover under a lock ========================

\* the elements of a sequence
Range(seq) == {seq[i] : i \in 1..Len(seq)}

\* C22: while a node is locked, a pointer move inside the locked node's card
\* bounds leaves no different node hovered (an existing hover of a different
\* node is cleared); a pointer move outside those bounds over other nodes
\* leaves one of them hovered; the lock is kept by both.
C22_HoverStaysOutsideLockedCard ==
    [][(lastInput'.kind = "mousemove" /\ lockedEvent # null)
         => /\ lockedEvent' = lockedEvent
            /\ IF lastInput'.node = lockedEvent
               THEN hoveredEvent' \in {null, lockedEvent}
               ELSE Range(lastInput'.under) \ {lockedEvent} # {}
                      => hoveredEvent' \in Range(lastInput'.under) \ {lockedEvent}]_vars

\* the pointer came into the locked card, over other entries too, and the
\* hover of a different node is gone
C22_Witness ==
    /\ lastInput.kind = "mousemove"
    /\ lockedEvent # null /\ lastInput.node = lockedEvent
    /\ Range(lastInput.under) \ {lockedEvent} # {}
    /\ lastInput.prev \notin {null, lockedEvent}
    /\ hoveredEvent = null

\* C23: a click inside the locked node's card bounds whose target is a
\* different node underneath it (not the hovered node, which is raised above
\* the locked one) clears the lock and does not lock that other node: after
\* the click the locked node is null.
C23_OccludedClickOnlyDismisses ==
    [][\A t \in 1..Len(track) :
         \A part \in ClickParts(track[t]) :
           (/\ ClickOn(t, part, TRUE)
            /\ lockedEvent # null
            /\ track[t].id \notin {lockedEvent, hoveredEvent})
             => /\ lockedEvent' = null
                /\ lockedCls' = lockedCls \ {lockedEvent}
                /\ track[t].id \notin lockedCls']_vars

\* a click on a node other than the locked one has left nothing locked
C23_Witness ==
    /\ lastInput.kind = "click"
    /\ lastInput.node # null /\ lastInput.prev # null
    /\ lastInput.node # lastInput.prev
    /\ lockedEvent = null /\ lockedCls = {}

\* C24: while a node is locked, a click that is outside the locked node and not
\* on any other node clears the lock (the locked node becomes null) and also
\* clears the hovered node.
C24_ClickAwayClearsLockAndHover ==
    (lastInput.kind = "click" /\ lastInput.node = null /\ lastInput.prev # null)
       => /\ lockedEvent = null /\ lastInput.prev \notin lockedCls
          /\ hoveredEvent = null /\ hoveredCls \cap NodeIds(track) = {}

\* a click on no entry while a node was locked
C24_Witness ==
    /\ lastInput.kind = "click" /\ lastInput.node = null
    /\ lastInput.prev # null /\ lastInput.prev \in NodeIds(track)
    /\ lockedEvent = null /\ hoveredEvent = null

\* ========================= CLAIMS: scale range ============================

ScaleChangingInputs == {"slider", "scaleBlur", "setScale"}

\* C21: after any sequence of scale-changing operations (setScale with any
\* number, a blur of the scale input with any text, a slider input)
\* CONFIG.pxPerYear is a number within [minPxPerYear, maxPxPerYear] = [0.5, 20].
C21_ScaleWithinRange ==
    lastInput.kind \in ScaleChangingInputs =>
       /\ ~pxPerYear.nan
       /\ pxPerYear.c >= 50 * MinPxPerYearHalves
       /\ pxPerYear.c <= 100 * MaxPxPerYear

\* ===================== CLAIMS: duration indicator ==========================

\* the dataset event an entry of the track was made from
EventOf(node) ==
    CHOOSE ev \in {allEvents[i] : i \in 1..Len(allEvents)} : ev.id = node.ev

\* C26: a range's duration indicator is not rendered when the event's type is
\* explicitly "event" (though it has an end year) or when its duration
\* (endYear - year) is zero; it is rendered for every other range.
C26_IndicatorOnlyForTrueRanges ==
    \A i \in 1..Len(track) :
       EventOf(track[i]).hasEnd
          => (track[i].showRangeBar
                <=> (EventOf(track[i]).type # "event"
                       /\ EventOf(track[i]).endYear - EventOf(track[i]).year # 0))

\* ============================ CLAIMS: nudge ===============================

\* the entry differs from what render() set by a nudge adjustment: a card
\* translation, a connector resized or re-anchored, a bar re-centred (a
\* connector left with no inline width has none)
HasNudgeAdjustments(n) ==
    \/ n.adj.isNudged \/ n.adj.transform # 0
    \/ n.adj.connCentered \/ n.adj.connPos = "center"
    \/ n.adj.barCentered \/ n.adj.barLeft = "center"
    \/ n.adj.connWidth \notin {-1, NodeOf(track, n.id).connectorWidth}

\* C25: in every reachable state a node's nudge adjustments (card translation,
\* connector resize, bar re-centring) are present only while that node is
\* locked, whichever way it lost the lock and whether or not the animation
\* frame that the lock asked for had run before the unlock.
C25_NudgedOnlyWhileLocked ==
    \A n \in nudges : HasNudgeAdjustments(n) => n.id = lockedEvent


CircaMarked == parseArg.kind = "year" /\ parseArg.circa # <<>>

CircaPresentText == <<"c", ".", " ", "p", "r", "e", "s", "e", "n", "t">>

\* C27: a leading "c." or "circa" (any letter case) is consumed before any
\* other rule and sets the circa flag, and the rest is parsed as the same text
\* without the marker is (apart from the round-BCE adjustment of one year):
\* "circa 44 BC" is HE 9957 with circa set, and "c. present" is the current
\* HE year.
C27_CircaMarkerConsumedFirst ==
    BothParsed =>
      /\ CircaMarked
           => IF parsedBare.nan THEN parsed.nan
              ELSE /\ ~parsed.nan /\ parsed.circa
                   /\ parsed.year \in {parsedBare.year, parsedBare.year - 1}
      /\ (/\ CircaMarked /\ parseArg.circa = <<"c", "i", "r", "c", "a", " ">>
          /\ Written(<<>>, <<" ", "B", "C">>) /\ parseArg.n = 44)
           => parsed = Year(9957, TRUE)
      /\ (parseArg.kind = "raw" /\ parseArg.raw = CircaPresentText)
           => (~parsed.nan /\ parsed.year \in CurrentHoloceneYears)

\* C28: on every pointer move with the pointer outside the locked card, every
\* rendered node other than the locked one with a visible part (card, duration
\* bar or anchor dot; in hide-labels mode the bar or the dot) that contains the
\* pointer is among the entries found under the pointer, and some node is
\* hovered whenever there is such a node; a range whose bar holds the pointer
\* more than 50px above or below its card is one of them.
C28_EveryNodeUnderPointerIsCandidate ==
    (lastInput.kind = "mousemove" /\ lastInput.node = null)
      => LET holding == (Range(lastInput.under) \cup lastInput.far) \ {lockedEvent}
         IN  /\ holding \subseteq Range(lastInput.under)
             /\ holding # {} => hoveredEvent # null

\* C29: with range spreading on, every range node that draws a duration bar
\* has a lane in 1..maxLanes (never lane 0), and its sideways offset is
\* lane x channelWidth and at most maxLanes x channelWidth, with 15 lanes of
\* 20px on desktop and 4 lanes of 15px on a narrow viewport.
C29_BarLaneAndOffsetWithinConfig ==
    LET maxLanes == IF isMobile THEN 4 ELSE 15
        channelWidth == IF isMobile THEN 15 ELSE 20
    IN  spreadRanges =>
          \A i \in 1..Len(track) :
             track[i].showRangeBar
               => /\ track[i].channel \in 1..maxLanes
                  /\ track[i].channelOffset = track[i].channel * channelWidth
                  /\ track[i].channelOffset <= maxLanes * channelWidth

\* a narrow viewport with five mutually overlapping ranges: lanes 1..4 and the
\* last lane again, the offset of the last two being 60px; and a desktop pass
\* that reaches lane 5 at 100px
C29_Witness ==
    /\ spreadRanges /\ Len(track) = MaxEntries
    /\ \A i \in 1..Len(track) : track[i].showRangeBar
    /\ \/ /\ isMobile
          /\ track[4].channel = 4 /\ track[5].channel = 4
          /\ track[5].channelOffset = 60
       \/ /\ ~isMobile
          /\ track[5].channel = 5 /\ track[5].channelOffset = 100

\* the inputs of a render: datasets, filters, spread flag, scale, viewport class
InputsOfRender ==
    <<pointEvents, rangeEvents, activeFilters, spreadRanges, pxPerYear, isMobile>>

Lanes(nodes) == [i \in 1..Len(nodes) |-> <<nodes[i].ev, nodes[i].channel>>]

\* every range the occupancy holds is the range of a node of this render in
\* that lane on that side
OccupancyOfThisRender ==
    \A side \in {"left", "right"} :
       \A c \in 1..Len(channelOccupancy[side]) :
          \A r \in channelOccupancy[side][c] :
             \E i \in 1..Len(track) :
                /\ track[i].side = side /\ track[i].showRangeBar
                /\ track[i].channel = c
                /\ track[i].year = r.start /\ track[i].endYear = r.end

RECURSIVE InputIdsFrom(_)
InputIdsFrom(u) ==
    IF u > Len(fetches) THEN <<>>
    ELSE (IF u \in SucceededUrls /\ fetches[u].data.hasEvents
          THEN [i \in DOMAIN fetches[u].data.events |-> fetches[u].data.events[i].id]
          ELSE <<>>)
           \o InputIdsFrom(u + 1)

\* C31: after loadAllDatasets the merged list is sorted by start year
\* ascending, events of equal year keep their input order (dataset, then
\* position in the dataset), and the event at 0-based position i of the list
\* has side left when i is even and right when i is odd.
C31_MergedSortedStableAlternating ==
    LoadCompleted =>
      LET input == InputIdsFrom(1) IN
      /\ \A i, j \in DOMAIN allEvents :
            i < j => /\ allEvents[i].year <= allEvents[j].year
                     /\ allEvents[i].year = allEvents[j].year
                          => IndexOf(input, allEvents[i].id)
                               < IndexOf(input, allEvents[j].id)
      /\ \A i \in DOMAIN allEvents :
            allEvents[i].side = (IF (i - 1) % 2 = 0 THEN "left" ELSE "right")

\* two files loaded, each with an event of year 9000 and an earlier one: the
\* earlier ones come first, the two of year 9000 in file order, sides
\* alternating from left
C31_Witness ==
    /\ LoadCompleted /\ Len(allEvents) = 4
    /\ \E i \in 1..3 :
          /\ allEvents[i].year = allEvents[i + 1].year
          /\ allEvents[i].id < allEvents[i + 1].id
    /\ allEvents[1].year < allEvents[2].year
    /\ [i \in 1..4 |-> allEvents[i].side] = <<"left", "right", "left", "right">>

\* the events renderTimeline reads that pass the active filters
FilterPassing ==
    LET loaded == pointEvents \o rangeEvents
    IN  {loaded[i] : i \in {j \in 1..Len(loaded) :
                              eventPassesFilter(loaded[j], activeFilters)}}

\* C32: renderTimeline emits exactly one node per filter-passing event, in
\* non-decreasing start-year order (a range is placed by its start year), so a
\* later event is never emitted before an earlier one.
C32_OneNodePerEventInYearOrder ==
    /\ Len(track) = Cardinality(FilterPassing)
    /\ {track[i].ev : i \in 1..Len(track)} = {e.id : e \in FilterPassing}
    /\ \A i, j \in 1..Len(track) :
          i < j => /\ track[i].ev # track[j].ev
                   /\ track[i].year <= track[j].year
    /\ \A i \in 1..Len(track) :
          \E e \in FilterPassing : e.id = track[i].ev /\ e.year = track[i].year

\* a re-render with a range of years 9000-9500 emitted before a point event of
\* year 11825 and some event filtered out
C32_Witness ==
    /\ renderCount > 1 /\ Len(track) < Len(allEvents)
    /\ \E i, j \in 1..Len(track) :
          /\ i < j /\ track[i].isRange /\ track[i].endYear = 9500
          /\ ~track[j].isRange /\ track[j].year = 11825

\* ========== SpecAnchor: events before year 0 at the scales of the slider ====

\* the <<year, endYear present, endYear>> of drawn events: ranges that start
\* before year 0 and end before it, at it and after it, and point events
AnchorShapes ==
    {<<-500, TRUE, -100>>, <<-500, TRUE, 0>>, <<-500, TRUE, 300>>,
     <<-2, FALSE, 0>>, <<9000, FALSE, 0>>}

DatedEvent(i, shape) ==
    [id |-> i, year |-> shape[1], hasEnd |-> shape[2], endYear |-> shape[3],
     categories |-> {}, type |-> "", side |-> ""]

AnchorDatasets ==
    {[i \in 1..MaxEvents |-> DatedEvent(i, sh[i])] :
        sh \in [1..MaxEvents -> AnchorShapes]}

AnchorInit == \E raw \in AnchorDatasets : LoadedInit(raw, {})

AnchorNext == ApplyScale \/ ToggleSpreadRanges

SpecAnchor == AnchorInit /\ [][AnchorNext]_vars

EditInit == LoadedInit(ApiDataset, {"a"})

\* the window is resized in width within its viewport class: the throttled
\* resize listener of init() runs updateYearDisplay() (the 250ms timeout finds
\* the class unchanged and does nothing)
WindowResize ==
    /\ \E now \in CurrentHoloceneYears :
          SetShown(updateYearDisplay(isEditingYear, Shown, scrollY, innerHeight,
                                     pxPerYear, now))
    /\ lastInput' = NoInput("resize")
    /\ UNCHANGED <<probeVars, loadVars, scrollVars, isEditingYear, focused,
                   heValueOnFocus, ceValueOnFocus, dataVars, cfgVars, domVars,
                   focusVars>>

EditNext ==
    \/ YearInputFocus \/ YearInputType \/ YearInputBlur \/ YearInputEscape
    \/ UserScroll \/ SmoothScrollArrives \/ WindowResize

SpecEdit == EditInit /\ [][EditNext]_vars

\* the editing flag is set exactly while a year input has focus, and a focused
\* input holds the text it had on focus or a text the user typed
EditingWhileFocused ==
    /\ isEditingYear <=> focused # "none"
    /\ focused # "none"
         => ValueOf(focused) \in TypedTexts \cup {ValueOnFocus(focused)}

\* a scroll with no input focused leaves the year on the reference line shown
ScrollShowsYearAgain ==
    (lastInput.kind = "scroll" /\ focused = "none")
      => \A now \in CurrentHoloceneYears :
            LET year == YearOnReferenceLine(scrollY, pxPerYear)
                shown == IF year > now THEN now ELSE year
            IN  /\ yearInput = toLocaleString(shown)
                /\ yearInputCE = Digits(fromHoloceneYear(shown).year)

\* C34: the live year readout is suppressed exactly while a year input has
\* focus: between focus and blur no scroll or resize event changes the value of
\* either input or the era label, and after every blur (changed valid value,
\* unparseable value, unchanged value, Enter, Escape) the editing flag is false
\* and scroll events update the readout again.
C34_ReadoutSuppressedWhileEditing ==
    /\ [](EditingWhileFocused /\ ScrollShowsYearAgain)
    /\ [][(focused # "none" /\ lastInput'.kind \in {"scroll", "resize"})
            => UNCHANGED <<readoutVars, isEditingYear, focused>>]_vars

\* an input is focused holding a typed text after the window has scrolled to
\* another year under it
C34_Witness ==
    /\ focused = "he" /\ isEditingYear /\ lastInput.kind = "scroll"
    /\ yearInput \in TypedTexts
    /\ yearInput # toLocaleString(YearOnReferenceLine(scrollY, pxPerYear))
    /\ heValueOnFocus # toLocaleString(YearOnReferenceLine(scrollY, pxPerYear))

\* ===== SpecRate: bursts of scroll and pointer events between two frames =====
\* The scroll listener of init() is throttleRAF(updateYearDisplay); the
\* mousemove listener of setupSmartHover is registered as it is.

\* the wrapper throttleRAF returns, called with an event whose data is args:
\* the closure it leaves and the callbacks pending then
throttleRAF(throttle, pending, args) ==
    [throttle |-> [scheduled |-> TRUE, lastArgs |-> args],
     pending |-> IF throttle.scheduled THEN pending ELSE pending + 1]

\* the window scrolls and the scroll event reaches the throttled listener
ScrollEvent ==
    /\ frameWork.scrolls < MaxBurst
    /\ \E pos \in ScrollStops(innerHeight, pxPerYear, 2026 + HoloceneOffset) \ {scrollY} :
          LET got == throttleRAF(scrollThrottle, rafCallbacks, pos)
          IN  /\ scrollY' = pos
              /\ scrollThrottle' = got.throttle
              /\ rafCallbacks' = got.pending
    /\ scrollTarget' = -1
    /\ frameWork' = [frameWork EXCEPT !.scrolls = @ + 1]
    /\ lastInput' = NoInput("scrollEvent")
    /\ UNCHANGED <<calVars, parseVars, pixVars, pageVars, loadVars, innerHeight, scrollTimers,
                   inputVars, dataVars, cfgVars, domVars, focusVars>>

\* a mousemove event reaches the listener of setupSmartHover, which runs its
\* hit test at once
PointerMoveEvent ==
    /\ frameWork.moves < MaxBurst
    /\ \E hit \in HitMaps(track) : MouseMoveHandled(0, hit)
    /\ frameWork' = [frameWork EXCEPT !.moves = @ + 1, !.hitTests = @ + 1]
    /\ UNCHANGED <<calVars, parseVars, pixVars, pageVars, scrollThrottle, rafCallbacks>>

\* an animation frame: every pending callback of throttleRAF runs
\* updateYearDisplay() and clears `scheduled`
ThrottledFrame ==
    /\ \E now \in CurrentHoloceneYears :
          SetShown(IF rafCallbacks > 0
                   THEN updateYearDisplay(isEditingYear, Shown, scrollY, innerHeight,
                                          pxPerYear, now)
                   ELSE Shown)
    /\ scrollThrottle' = [scrollThrottle EXCEPT
                            !.scheduled = IF rafCallbacks > 0 THEN FALSE ELSE @]
    /\ frameWork' = [NoWork EXCEPT !.readouts = rafCallbacks]
    /\ rafCallbacks' = 0
    /\ lastInput' = NoInput("frame")
    /\ UNCHANGED <<calVars, parseVars, pixVars, pageVars, loadVars, scrollVars, isEditingYear,
                   focused, heValueOnFocus, ceValueOnFocus, dataVars, cfgVars,
                   domVars, focusVars>>

RateInit == LoadedInit(FocusDataset, {"a"})

RateNext == ScrollEvent \/ PointerMoveEvent \/ ThrottledFrame

SpecRate == RateInit /\ [][RateNext]_vars

\* the scroll events of a burst leave one callback pending, holding the latest
\* event, and the frame that runs it shows the year of the latest scroll offset
ScrollServedOncePerFrame ==
    /\ frameWork.readouts <= 1 /\ rafCallbacks <= 1
    /\ frameWork.scrolls > 0
         => /\ scrollThrottle.scheduled /\ rafCallbacks = 1
            /\ scrollThrottle.lastArgs = scrollY
    /\ (lastInput.kind = "frame" /\ frameWork.readouts > 0)
         => \A now \in CurrentHoloceneYears :
               LET year == YearOnReferenceLine(scrollY, pxPerYear)
               IN  yearInput = toLocaleString(IF year > now THEN now ELSE year)

\* C35: pointer-move and scroll handling is rate-limited to animation frames:
\* for any burst of pointer-move or scroll events between two frames the hover
\* hit test and the year-readout update each run at most once per frame, and an
\* event that arrives while a run is pending is served by a later run with the
\* latest event's data.
C35_OneRunPerFrame ==
    /\ frameWork.hitTests <= 1
    /\ ScrollServedOncePerFrame

\* STATE.categories after loadAllDatasets: per key, the dataset whose
\* definition it holds
CategoryTable == MergeCategoryTable(datasets)

\* the succeeded urls whose file defines category key k
DefinedBy(k) == {u \in SucceededUrls : k \in fetches[u].data.categories}

\* C36: the merged event order, the side of every event and the category
\* table that loadAllDatasets produces depend only on the order of the url list
\* and the files' contents, not on the order the fetches complete in; a
\* category key defined by two datasets holds the definition of the dataset
\* later in the list.
C36_MergeIndependentOfCompletionOrder ==
    LoadCompleted =>
      LET input == InputIdsFrom(1) IN
      /\ {datasets[i].id : i \in DOMAIN datasets} = SucceededUrls
      /\ \A i, j \in DOMAIN datasets : i < j => datasets[i].id < datasets[j].id
      /\ \A i, j \in DOMAIN allEvents :
            (i < j /\ allEvents[i].year = allEvents[j].year)
              => IndexOf(input, allEvents[i].id) < IndexOf(input, allEvents[j].id)
      /\ \A i \in DOMAIN allEvents :
            allEvents[i].side = SideOfIndex(i - 1)
      /\ categories = {k \in {"a", "b"} : DefinedBy(k) # {}}
      /\ DOMAIN CategoryTable = categories
      /\ \A k \in categories :
            \A u \in DefinedBy(k) : CategoryTable[k] >= u

\* both files loaded, the second url having settled first; both define the
\* key "a", which holds the second file's definition, and both hold an event
\* of year 9000, the first file's coming first
C36_Witness ==
    /\ LoadCompleted /\ Len(fetches) >= 2
    /\ lastInput.under[1] = 2 /\ 1 \in Range(lastInput.under)
    /\ {1, 2} \subseteq DefinedBy("a") /\ CategoryTable["a"] >= 2
    /\ \E i, j \in DOMAIN allEvents :
          /\ i < j /\ allEvents[i].year = allEvents[j].year
          /\ allEvents[i].id = 11 /\ allEvents[j].id = 21

\* ====== SpecMount: renderTimeline with the track element present or not =====

\* renderTimeline() called as it is (the function is a global of the page):
\* with no #timelineTrack it logs and returns before it touches anything
RenderTimelineCalledUnguarded ==
    /\ renderCount < MaxRenders
    /\ Rerender(activeFilters, spreadRanges, pxPerYear, Focus)
    /\ lastInput' = NoInput("render")
    /\ UNCHANGED <<probeVars, loadVars, viewVars, dataVars, cfgVars, lastY>>

RenderTimelineCalled ==
    /\ renderCount < MaxRenders
    /\ IF hasTrack
       THEN Rerender(activeFilters, spreadRanges, pxPerYear, Focus)
       ELSE UNCHANGED <<domVars, lockedEvent, hoveredEvent, lockedCls, hoveredCls,
                        nudgeVars>>
    /\ lastInput' = NoInput("render")
    /\ UNCHANGED <<probeVars, loadVars, viewVars, dataVars, cfgVars, lastY>>

\* a script of the embedding page takes #timelineTrack out of the document
TrackRemoved ==
    /\ hasTrack /\ hasTrack' = FALSE
    /\ lastInput' = NoInput("removed")
    /\ UNCHANGED <<calVars, parseVars, pixVars, rateVars, loadVars, viewVars,
                   dataVars, cfgVars, domVars, focusVars>>

\* clicks and pointer moves over the entries while they are in the document
MountClick == hasTrack /\ Click
MountMouseMove == hasTrack /\ MouseMoveAcross

MountInit == LoadedInit(FocusDataset, {"a"})

MountNext == MountClick \/ MountMouseMove \/ TrackRemoved \/ RenderTimelineCalled

SpecMount == MountInit /\ [][MountNext]_vars

\* C37: renderTimeline called while the track mount point is absent is a
\* no-op on state (it returns at once, throwing nothing): the locked and the
\* hovered node, their class marks, the channel occupancy, the rendered nodes,
\* the scale, the filters and the event lists are unchanged.
C37_RenderWithoutTrackIsNoOp ==
    [][(~hasTrack /\ lastInput'.kind = "render")
         => UNCHANGED <<lockedEvent, hoveredEvent, lockedCls, hoveredCls,
                        channelOccupancy, track, renderCount, pxPerYear,
                        activeFilters, spreadRanges, allEvents, pointEvents,
                        rangeEvents, datasets, categories, nudgeVars>>]_vars

\* renderTimeline has been called without the track while a node was locked
\* and another hovered, and both still are
C37_Witness ==
    /\ ~hasTrack /\ lastInput.kind = "render"
    /\ lockedEvent # null /\ hoveredEvent # null /\ hoveredEvent # lockedEvent
    /\ Len(track) = 2 /\ renderCount = 1

\* C38: for every integer HE year h (positive, zero or negative),
\* toHoloceneYear of the year and era that fromHoloceneYear(h) returns is h; and
\* for every BCE year y >= 1, fromHoloceneYear(toHoloceneYear(y, 'BCE')) is
\* {year: y, era: 'BCE'}.
C38_EraConversionRoundTrips ==
    /\ calPc = "returned" => heBack = heYear
    /\ (calPc \in {"inverted", "returned"} /\ toUpperCase(argEra) \in {"BCE", "BC"}
          /\ argYear >= 1)
         => ceResult = [year |-> argYear, era |-> "BCE"]

\* the HE year -3 came back through the BCE year 10004
C38_Witness ==
    /\ calPc = "returned" /\ heYear = -3 /\ heBack = -3
    /\ ceResult = [year |-> 10004, era |-> "BCE"]

\* C39: in every reachable state, every rendered node carrying the hovered
\* mark is STATE.hoveredEvent or STATE.lockedEvent; pointer moves, clicks,
\* click-aways and pointer-leave events leave no hover highlight on a third node.
C39_NoStaleHoverMark ==
    (hoveredCls \cap NodeIds(track)) \subseteq {hoveredEvent, lockedEvent}

\* a card is locked and still marked hovered, and the pointer has just moved
\* the hover from a third node to another one
C39_Witness ==
    /\ lastInput.kind = "mousemove"
    /\ lockedEvent # null /\ hoveredEvent # null /\ hoveredEvent # lockedEvent
    /\ lastInput.prev \in NodeIds(track) \ {hoveredEvent, lockedEvent}
    /\ hoveredCls = {hoveredEvent, lockedEvent}

====
